---- MODULE Spec2Model ----
(***************************************************************************)
(* ACC Docs Attribute Sync (script.py): the key normaliser, the            *)
(* reconciliation pass on_apply_descriptions, the data client's token      *)
(* guard and the OAuth sign-in (on_sign_in / AccAuthClient.authenticate).  *)
(*                                                                         *)
(* Text is modelled as a sequence of one-character strings so that the     *)
(* normaliser can be computed character by character.  Python's None is    *)
(* the value None below; Truthy(v) is Python's truth test on a str/None.   *)
(* Time is in seconds.                                                     *)
(***************************************************************************)
EXTENDS Integers, Sequences, FiniteSets, TLC

None == "<None>"

\* None where a text (a sequence of characters) is expected
NoneText == <<None>>

\* Python truth of an optional string: neither None nor empty
Truthy(v) == v # None /\ v # ""

(***************************************************************************)
(* Bounds of the model.                                                    *)
(***************************************************************************)
MaxItems == 2

MaxRows == 2

MaxAttempts == 2

(***************************************************************************)
(* ExcelReader._normalize_name / _normalize_base                           *)
(***************************************************************************)
NBSP == "NBSP"

DirectionalMarks == {"LRM", "RLM", "LRE", "RLE", "PDF"}

DashLike == {"ENDASH", "EMDASH", "MINUS"}

Whitespace == {" ", "TAB", "NBSP"}

LowerOf == [c \in {"A", "B", "P", "D"} |->
              CASE c = "A" -> "a" [] c = "B" -> "b" [] c = "P" -> "p" [] c = "D" -> "d"]

Lower(c) == IF c \in DOMAIN LowerOf THEN LowerOf[c] ELSE c

ReplaceNbsp(c) == IF c = NBSP THEN " " ELSE c

ReplaceDash(c) == IF c \in DashLike THEN "-" ELSE c

NotDirectional(c) == c \notin DirectionalMarks

RECURSIVE DropLeadingWs(_)
DropLeadingWs(t) ==
    IF t # <<>> /\ Head(t) \in Whitespace THEN DropLeadingWs(Tail(t)) ELSE t

RECURSIVE CollapseWs(_)
CollapseWs(t) ==
    IF t = <<>> THEN <<>>
    ELSE IF Head(t) \in Whitespace
         THEN <<" ">> \o CollapseWs(DropLeadingWs(Tail(t)))
         ELSE <<Head(t)>> \o CollapseWs(Tail(t))

RECURSIVE DropTrailingWs(_)
DropTrailingWs(t) ==
    IF t # <<>> /\ t[Len(t)] \in Whitespace
    THEN DropTrailingWs(SubSeq(t, 1, Len(t) - 1))
    ELSE t

Strip(t) == DropTrailingWs(DropLeadingWs(t))

\* the directional marks are taken out after the whitespace is collapsed
NormalizeNameMarksLast(value) ==
    IF value = NoneText THEN <<>>
    ELSE LET t1 == [i \in 1..Len(value) |-> ReplaceNbsp(value[i])]
             t3 == [i \in 1..Len(t1) |-> ReplaceDash(t1[i])]
             t4 == SelectSeq(Strip(CollapseWs(t3)), NotDirectional)
         IN  [i \in 1..Len(t4) |-> Lower(t4[i])]

NormalizeName(value) ==
    IF value = NoneText THEN <<>>
    ELSE LET t1 == [i \in 1..Len(value) |-> ReplaceNbsp(value[i])]
             t2 == SelectSeq(t1, NotDirectional)
             t3 == [i \in 1..Len(t2) |-> ReplaceDash(t2[i])]
             t4 == Strip(CollapseWs(t3))
         IN  [i \in 1..Len(t4) |-> Lower(t4[i])]

\* str.rfind over a set of characters: the last index holding one of them, 0 if none
RECURSIVE RFind(_, _, _)
RFind(t, chars, i) ==
    IF i = 0 THEN 0 ELSE IF t[i] \in chars THEN i ELSE RFind(t, chars, i - 1)

PathSeps == {"/", "\\"}

\* os.path.splitext (ntpath): the base part of p
SplitextBase(p) ==
    LET sepIndex == RFind(p, PathSeps, Len(p))
        dotIndex == RFind(p, {"."}, Len(p))
    IN  IF dotIndex > sepIndex
           /\ \E k \in (sepIndex + 1)..(dotIndex - 1) : p[k] # "."
        THEN SubSeq(p, 1, dotIndex - 1)
        ELSE p

NormalizeBase(value) ==
    LET name == NormalizeName(value)
        base == SplitextBase(name)
    IN  IF name = <<>> THEN <<>>
        ELSE IF base # <<>> THEN base ELSE name

(***************************************************************************)
(* ExcelReader._add_result and the registration of accepted rows           *)
(***************************************************************************)
ExcelRow(file_name, description) == [FileName |-> file_name, Description |-> description]

\* what dict.get gives on a miss
NoRow == [missing |-> TRUE]

\* the index is a function from keys to rows
DictGet(d, k) == IF k \in DOMAIN d THEN d[k] ELSE NoRow

\* a later row takes the key over
AddResultLastWins(result, key, row) ==
    IF key # <<>>
    THEN [k \in DOMAIN result \cup {key} |-> IF k = key THEN row ELSE result[k]]
    ELSE result

\* lines 176-179
AddResult(result, key, row) ==
    IF key # <<>> /\ key \notin DOMAIN result
    THEN [k \in DOMAIN result \cup {key} |-> IF k = key THEN row ELSE result[k]]
    ELSE result

RegisterRow(result, row) ==
    AddResult(AddResult(result, NormalizeName(row.FileName), row),
              NormalizeBase(row.FileName), row)

RECURSIVE BuildIndex(_, _)
BuildIndex(result, rows) ==
    IF rows = <<>> THEN result
    ELSE BuildIndex(RegisterRow(result, Head(rows)), Tail(rows))

EmptyIndex == [k \in {} |-> NoRow]

(***************************************************************************)
(* AccAuthSession, AccAuthClient.refresh, AccDataClient                    *)
(***************************************************************************)
SafetyMarginSeconds == 120

FallbackExpirySeconds == 3000

Session(access, refresh, expires) ==
    [AccessToken |-> access, RefreshToken |-> refresh, ExpiresAtUtc |-> expires]

\* no session object (None)
NoSession == Session(None, None, 0)

\* data.get(name, default) on the parsed token response
JsonGet(resp, name, default) == IF name \in resp.omits THEN default ELSE resp[name]

\* a fallback that is not applied to a reported zero
ExpiresInSecondsNoFallback(expires_in) == expires_in

\* line 449: the lifetime counted from the reading of the response
ExpiresInSeconds(expires_in) ==
    IF expires_in > 0 THEN expires_in ELSE FallbackExpirySeconds

\* AccAuthSession.from_json on a parsed token response at time t
FromJson(resp, t) ==
    Session(JsonGet(resp, "access_token", ""), JsonGet(resp, "refresh_token", ""),
            t + ExpiresInSeconds(JsonGet(resp, "expires_in", 0)))

\* one HTTP request put on the wire by http_send
Request(method, kind, project, id, bearer, body) ==
    [method |-> method, kind |-> kind, project |-> project, id |-> id,
     bearer |-> bearer, body |-> body]

\* result of a call: raised or returned, the session afterwards, requests sent
Raised(err, s, sent) == [raised |-> TRUE, err |-> err, session |-> s, sent |-> sent, body |-> None]

Returned(s, sent, body) == [raised |-> FALSE, err |-> None, session |-> s, sent |-> sent, body |-> body]

\* the token endpoint's answer to one POST
TokenOk(access, refresh, expires_in) ==
    [kind |-> "ok", access_token |-> access, refresh_token |-> refresh,
     expires_in |-> expires_in, omits |-> {}]

TokenError ==
    [kind |-> "error", access_token |-> "", refresh_token |-> "", expires_in |-> 0,
     omits |-> {}]

\* an answer whose text json.loads cannot read
TokenUnparsable == [TokenError EXCEPT !.kind = "unparsable"]

\* a token response that leaves the named fields out
Omitting(resp, names) == [resp EXCEPT !.omits = names]

\* a refresh sent whatever the session holds
HasRefreshTokenAlways(s) == TRUE

\* line 498: the test refresh makes before anything is sent
HasRefreshToken(s) == Truthy(s.RefreshToken)

\* a guard with no safety margin
InMarginNoSafety(s, t) == s.ExpiresAtUtc <= t

\* line 719: the session expires within the safety margin
InMargin(s, t) == s.ExpiresAtUtc <= t + SafetyMarginSeconds

Refresh(s, t, tokResp) ==
    IF ~HasRefreshToken(s)
    THEN Raised("NoRefreshToken", s, <<>>)
    ELSE LET post == Request("POST", "token", None, s.RefreshToken, None, "refresh_token")
         IN  IF tokResp.kind # "ok"
             THEN Raised("RefreshFailed", s, <<post>>)
             ELSE Returned(FromJson(tokResp, t), <<post>>, None)

EnsureToken(s, t, tokResp) ==
    IF InMargin(s, t)
    THEN Refresh(s, t, tokResp)
    ELSE Returned(s, <<>>, None)

\* AccDataClient._get: guard, then GET with the session's token
Get(s, t, kind, project_id, id, tokResp, httpResp) ==
    LET g == EnsureToken(s, t, tokResp)
    IN  IF g.raised THEN g
        ELSE LET req == Request("GET", kind, project_id, id, g.session.AccessToken, None)
             IN  IF httpResp.kind # "ok"
                 THEN Raised("TransportError", g.session, g.sent \o <<req>>)
                 ELSE Returned(g.session, g.sent \o <<req>>, httpResp.body)

\* AccDataClient.get_item_detail: guard, then _get (which guards again)
GetItemDetail(s, t, project_id, item_id, tokResp, httpResp) ==
    LET g == EnsureToken(s, t, tokResp)
    IN  IF g.raised THEN g
        ELSE LET r == Get(g.session, t, "item", project_id, item_id, tokResp, httpResp)
             IN  [r EXCEPT !.sent = g.sent \o r.sent]

\* AccDataClient.update_version_description: guard, then PATCH
UpdateVersionDescription(s, t, project_id, version_id, description, tokResp, httpResp) ==
    LET g == EnsureToken(s, t, tokResp)
    IN  IF g.raised THEN g
        ELSE LET req == Request("PATCH", "version", project_id, version_id,
                                g.session.AccessToken, description)
             IN  IF httpResp.kind # "ok"
                 THEN Raised("TransportError", g.session, g.sent \o <<req>>)
                 ELSE Returned(g.session, g.sent \o <<req>>, None)

(***************************************************************************)
(* State                                                                   *)
(***************************************************************************)
VARIABLES
    file_items,     \* AccDocsWindow._file_items: sequence of FileItem
    excel_rows,     \* AccDocsWindow._excel_rows: the RowIndex (None before a load)
    project,        \* project_combo.SelectedItem: a project id or None
    session,        \* AccDocsWindow._session, shared with _data_client (NoSession: None)
    now,            \* DateTime.UtcNow, seconds since the window opened
    apply_pc,       \* on_apply_descriptions: "idle", "rejected", "running", "done"
    idx,            \* position of the for loop in list(self._file_items)
    updated,        \* local counter updated
    skipped,        \* local counter skipped
    log,            \* lines written by self.log during the pass: [line, item]
    calls,          \* data client methods called by the pass, in order
    requests,       \* HTTP requests put on the wire by http_send, in order
    errors,         \* exceptions caught inside the loop of the pass, in order
    auth_in_progress,   \* AccDocsWindow._auth_in_progress
    login_enabled,      \* login_button.IsEnabled
    status_text,        \* status_text.Text
    workers,            \* the sign-in worker threads, by order of start
    port_owner,         \* the worker whose HttpListener holds REDIRECT_URI, 0 if free
    sign_ins,           \* what each on_sign_in invocation did, in order
    cache               \* the settings store: acc_token, acc_token_expires

pass_vars == <<file_items, excel_rows, project, apply_pc, idx, updated, skipped,
               log, calls, errors>>

\* state of the data client's threads
VARIABLES
    threads,            \* the threads inside a call of AccDataClient, by name
    session_origin,     \* the token response the session was built from
    listing_pages       \* the number of pages the service cuts a listing into

client_vars == <<threads, session_origin, listing_pages>>

\* state of the folder tree
VARIABLES
    nodes,              \* the FolderNode objects of the tree, by folder id
    folder_nodes,       \* AccDocsWindow._folder_nodes: the ids shown at the top level
    folder_nav_stack,   \* AccDocsWindow._folder_nav_stack
    generation,         \* how many times load_top_folders rebuilt the tree
    child_listings,     \* calls of get_folder_children per node since it was created
    folder_events,      \* number of requests made to the tree
    last_folder_event,  \* the last request made to the tree
    ui_queue,           \* the requests made to the tree that the UI thread has yet to handle
    ui_stack            \* the handlers the UI thread is inside, each in a call of the data client

folder_vars == <<nodes, folder_nodes, folder_nav_stack, generation, child_listings,
                 folder_events, last_folder_event, ui_queue, ui_stack>>

\* state of the spreadsheet load
VARIABLES
    workbook,           \* the workbook behind the chosen path
    excel_status,       \* "none", "loaded" or "failed"
    excel_diag          \* ExcelReader.LastDiagnostics

excel_vars == <<workbook, excel_status, excel_diag>>

\* state of a key computation
VARIABLES
    norm_input,         \* the name handed to _normalize_name and _normalize_base
    norm_pc,            \* "input", "once" or "twice"
    norm_keys           \* the keys computed from the name, and from those keys

names_vars == <<norm_input, norm_pc, norm_keys>>

\* state of a load by folder URL
VARIABLES
    url_input,          \* the project id found in the URL and the project selected in the list
    url_pc,             \* "idle", "rejected", "working", "ui_ok", "ui_fail", "loaded" or "failed"
    url_candidates,     \* the project ids the worker is to try, in order
    url_attempts        \* the calls of get_files_in_folder made so far, with their outcomes

url_vars == <<url_input, url_pc, url_candidates, url_attempts>>

\* state of a repeated pass
VARIABLES
    run,                \* 1 during the first invocation of on_apply_descriptions, then 2
    first_run,          \* what the first invocation logged, called and counted
    replay              \* the answers the service gave to the first invocation, by item

rerun_vars == <<run, first_run, replay>>

\* state of the start of the window
VARIABLES
    startup_pc          \* "constructed", "unauthenticated", "loading", "hubs loaded", "hub load failed" or "over"

startup_vars == <<startup_pc>>

\* state of read_excel while it goes through the sheets of a workbook
VARIABLES
    scan_pc,            \* "idle", "scanning", "selected", "built" or "closed"
    scan_k,             \* the sheet the loop is at
    ws_local,           \* the sheet whose Worksheet object the local ws holds, 0 when unbound
    rng_local,          \* the sheet whose UsedRange object the local rng holds, 0 when unbound
    best_sheet,         \* the local best: the best sheet so far and its counts
    released_ws,        \* the sheets whose Worksheet object was released
    released_rng,       \* the sheets whose UsedRange object was released
    text_reads          \* the reads of Cells(r, c).Text on the selected sheet, on a live
                        \* and on a released Worksheet object

scan_vars == <<scan_pc, scan_k, ws_local, rng_local, best_sheet, released_ws, released_rng,
               text_reads>>

\* state of a call of build_session_block of the BEP engine
VARIABLES
    bep_sessions,       \* the sessions of the payload
    bep_start_fresh,    \* the StartFresh value of the payload
    bep_block           \* the lines of the block built, <<>> before the call

bep_vars == <<bep_sessions, bep_start_fresh, bep_block>>

more_vars == <<names_vars, url_vars, rerun_vars, startup_vars, scan_vars, bep_vars>>

\* the variables the sign-in and the reconciliation pass leave alone
ext_vars == <<client_vars, folder_vars, excel_vars, more_vars>>

auth_vars == <<auth_in_progress, login_enabled, status_text, workers, port_owner,
               sign_ins, cache>>

vars == <<pass_vars, session, now, requests, auth_vars, ext_vars>>

(***************************************************************************)
(* Inputs of the reconciliation pass                                       *)
(***************************************************************************)
C4RModel == "items:autodesk.bim360:C4RModel"

PlainFile == "items:autodesk.bim360:File"

FileItem(id, display_name, description, ext_type) ==
    [Id |-> id, DisplayName |-> display_name, Description |-> description,
     ExtensionType |-> ext_type]

\* display names of remote items: "P.d" and "B  a"
DisplayNames == { <<"P", ".", "d">>, <<"B", " ", "NBSP", "a">> }

ItemChoices ==
    { FileItem(id, n, "", x) : id \in {"", "i1"}, n \in DisplayNames, x \in {C4RModel, PlainFile} }

\* accepted spreadsheet rows (file name, description): "p.d", "P.x", "b a"
RowChoices ==
    { ExcelRow(<<"p", ".", "d">>, ""),
      ExcelRow(<<"P", ".", "x">>, "d2"),
      ExcelRow(<<"b", " ", "a">>, "d3") }

SeqsUpTo(S, n) == UNION { [1..k -> S] : k \in 0..n }

\* a session well inside its lifetime and one inside the 2 minute margin
SessionChoices == { Session("t0", "r0", 600), Session("t0", "r0", 90) }

TokenResponses == { TokenError, TokenOk("t1", "r1", 3600) }

\* body of an item detail response: whether attributes.extension is an object,
\* and relationships.tip.data.id
DetailBody(ext_is_dict, tip) == [ext_is_dict |-> ext_is_dict, tip |-> tip]

HttpOk(body) == [kind |-> "ok", body |-> body]

HttpError == [kind |-> "error", body |-> None]

DetailResponses ==
    {HttpError} \cup { HttpOk(DetailBody(e, tp)) : e \in BOOLEAN, tp \in {None, "", "v1"} }

UpdateResponses == { HttpError, HttpOk(None) }

(***************************************************************************)
(* AccDocsWindow.on_apply_descriptions                                     *)
(***************************************************************************)
\* a line of the log pane: its text, the loop iteration that wrote it (0
\* outside the loop) and the value it prints
Line(line, item, value) == [line |-> line, item |-> item, value |-> value]

Call(op, item, project_id, id, description) ==
    [op |-> op, item |-> item, project |-> project_id, id |-> id, description |-> description]

\* an exception caught inside the loop: the iteration and the call that raised
Caught(item, stage, err) == [item |-> item, stage |-> stage, err |-> err]

\* lines 1453-1460: the early returns
ApplyRejected ==
    /\ apply_pc = "idle"
    /\ (excel_rows = EmptyIndex \/ project = None)
    /\ apply_pc' = "rejected"
    /\ UNCHANGED <<file_items, excel_rows, project, session, now, idx, updated,
                   skipped, log, calls, requests, errors, auth_vars, ext_vars>>

\* lines 1462-1475: counters set to zero, the loop starts on a copy of the list
ApplyStart ==
    /\ apply_pc = "idle"
    /\ excel_rows # EmptyIndex
    /\ project # None
    /\ apply_pc' = "running"
    /\ idx' = 1
    /\ updated' = 0
    /\ skipped' = 0
    /\ UNCHANGED <<file_items, excel_rows, project, session, now, log, calls,
                   requests, errors, auth_vars, ext_vars>>

\* lines 1482-1486: the row matched by the full key, else by the base key
LookupRow(rows, display_name) ==
    LET row == DictGet(rows, NormalizeName(display_name))
    IN  IF row = NoRow THEN DictGet(rows, NormalizeBase(display_name)) ELSE row

\* an item whose description in the file list is that of its row is skipped
PreFetchSkipUpToDate(file_item, row) ==
    IF ~Truthy(file_item.Id) THEN "Skipped (missing item id)"
    ELSE IF row = NoRow THEN "Skipped (no Excel row)"
    ELSE IF ~Truthy(row.Description) THEN "Skipped (empty description)"
    ELSE IF file_item.Description = row.Description THEN "Skipped (up to date)"
    ELSE None

\* lines 1477-1495: the skips decided before any remote call
PreFetchSkip(file_item, row) ==
    IF ~Truthy(file_item.Id) THEN "Skipped (missing item id)"
    ELSE IF row = NoRow THEN "Skipped (no Excel row)"
    ELSE IF ~Truthy(row.Description) THEN "Skipped (empty description)"
    ELSE None

\* lines 1511-1532: the tip resolved from the item detail; None when the fetch
\* or the reading of the response raised
ResolveTip(detail) ==
    IF detail.raised THEN None
    ELSE IF ~detail.body.ext_is_dict THEN None
    ELSE detail.body.tip

\* the tip test placed before the type test
PostFetchSkipTipFirst(file_item, tip) ==
    IF ~Truthy(tip) THEN "Skipped (missing tip version id)"
    ELSE IF file_item.ExtensionType = C4RModel THEN "Skipped (C4RModel not supported)"
    ELSE None

\* lines 1534-1542: the skips decided after the item detail was fetched
PostFetchSkip(file_item, tip) ==
    IF file_item.ExtensionType = C4RModel THEN "Skipped (C4RModel not supported)"
    ELSE IF ~Truthy(tip) THEN "Skipped (missing tip version id)"
    ELSE None

\* the update addressed to the item instead of its tip version
UpdateArgsItemId(project_id, file_item, tip, row) ==
    [project |-> project_id, version_id |-> file_item.Id, description |-> row.Description]

\* line 1544: the arguments of the update call
UpdateArgs(project_id, file_item, tip, row) ==
    [project |-> project_id, version_id |-> tip, description |-> row.Description]

\* the exception of one item leaving the loop
AfterItemErrorAbort(pc) == "aborted"

\* lines 1548-1549: the handler around one item swallows the exception, the
\* for loop goes on with the next item
AfterItemError(pc) == pc

\* lines 1545-1546 and 1548-1549: the counters after the update call
CountUpdate(raised, counts) ==
    IF raised THEN counts
    ELSE [counts EXCEPT !.updated = counts.updated + 1]

\* an answer of the service and whether a request of the pass received it
Answer(used, resp) == [used |-> used, resp |-> resp]

\* some request of the given kind is among those sent
SentKind(sent, kind) == \E k \in 1..Len(sent) : sent[k].kind = kind

\* the answers one item of the pass received
Answers(tok, detail, update) == [tok |-> tok, detail |-> detail, update |-> update]

\* no request was sent for the item
NoAnswers == Answers(Answer(FALSE, TokenError), Answer(FALSE, HttpError), Answer(FALSE, HttpError))

\* the service answers a request as it answered it for the same item before
Replayed(answers, tokResp, detailResp, updateResp) ==
    /\ answers.tok.used => tokResp = answers.tok.resp
    /\ answers.detail.used => detailResp = answers.detail.resp
    /\ answers.update.used => updateResp = answers.update.resp

\* lines 1497-1549 for an item that passed the first skips: the item detail
\* is fetched, then the item is skipped or the update is called
FetchAndUpdate(file_item, row, tokResp, detailResp, updateResp) ==
    LET detail    == GetItemDetail(session, now, project, file_item.Id, tokResp, detailResp)
        tip       == ResolveTip(detail)
        fetchFailed == detail.raised \/ ~detail.body.ext_is_dict
        fetchLog  == IF fetchFailed
                     THEN <<Line("Pre-update fetch failed", idx, None)>>
                     ELSE <<Line("Pre-update item", idx, tip)>>
        fetchErr  == IF fetchFailed
                     THEN <<Caught(idx, "get_item_detail",
                                   IF detail.raised THEN detail.err ELSE "AttributeError")>>
                     ELSE <<>>
        post      == PostFetchSkip(file_item, tip)
        args      == UpdateArgs(project, file_item, tip, row)
        update    == UpdateVersionDescription(detail.session, now, args.project,
                                              args.version_id, args.description,
                                              tokResp, updateResp)
        detailCall == Call("get_item_detail", idx, project, file_item.Id, None)
        updateCall == Call("update_version_description", idx, args.project,
                           args.version_id, args.description)
        counts    == CountUpdate(update.raised, [updated |-> updated, skipped |-> skipped])
        sent      == IF post # None THEN detail.sent ELSE detail.sent \o update.sent
        answers   == Answers(IF SentKind(sent, "token") THEN Answer(TRUE, tokResp)
                             ELSE NoAnswers.tok,
                             IF SentKind(sent, "item") THEN Answer(TRUE, detailResp)
                             ELSE NoAnswers.detail,
                             IF SentKind(sent, "version") THEN Answer(TRUE, updateResp)
                             ELSE NoAnswers.update)
    IN  /\ replay' = IF run = 1 THEN Append(replay, answers) ELSE replay
        /\ IF post # None
           THEN /\ skipped' = skipped + 1
                /\ log' = log \o <<Line("Updating", idx, None)>> \o fetchLog
                              \o <<Line(post, idx, None)>>
                /\ session' = detail.session
                /\ calls' = Append(calls, detailCall)
                /\ requests' = requests \o detail.sent
                /\ errors' = errors \o fetchErr
                /\ apply_pc' = apply_pc
                /\ UNCHANGED <<updated, file_items>>
           ELSE /\ updated' = counts.updated
                /\ skipped' = counts.skipped
                /\ file_items' = IF update.raised THEN file_items
                                 ELSE [file_items EXCEPT ![idx].Description = row.Description]
                /\ log' = log \o <<Line("Updating", idx, None)>> \o fetchLog
                              \o <<Line(IF update.raised THEN "Failed to update" ELSE "Updated",
                                        idx, None)>>
                /\ session' = update.session
                /\ calls' = calls \o <<detailCall, updateCall>>
                /\ requests' = requests \o detail.sent \o update.sent
                /\ errors' = errors \o fetchErr \o
                      (IF update.raised
                       THEN <<Caught(idx, "update_version_description", update.err)>>
                       ELSE <<>>)
                /\ apply_pc' = IF update.raised THEN AfterItemError(apply_pc) ELSE apply_pc

\* one iteration of the for loop, lines 1475-1549, but for the thread it runs on
ApplyItemBody ==
    /\ apply_pc = "running"
    /\ idx <= Len(file_items)
    /\ LET file_item == file_items[idx]
           row       == LookupRow(excel_rows, file_item.DisplayName)
           pre       == PreFetchSkip(file_item, row)
       IN  IF pre # None
           THEN /\ skipped' = skipped + 1
                /\ log' = Append(log, Line(pre, idx, None))
                /\ apply_pc' = apply_pc
                /\ replay' = IF run = 1 THEN Append(replay, NoAnswers) ELSE replay
                /\ UNCHANGED <<updated, file_items, session, calls, requests, errors>>
           ELSE \E tokResp \in TokenResponses, detailResp \in DetailResponses,
                   updateResp \in UpdateResponses :
                    /\ run = 2 => Replayed(replay[idx], tokResp, detailResp, updateResp)
                    /\ FetchAndUpdate(file_item, row, tokResp, detailResp, updateResp)
    /\ idx' = idx + 1
    /\ UNCHANGED <<excel_rows, project, now, auth_vars>>
    /\ UNCHANGED <<session_origin, listing_pages, folder_vars, excel_vars, names_vars, url_vars,
                   run, first_run, startup_vars, scan_vars, bep_vars>>

\* one iteration of the for loop, lines 1475-1549
ApplyItem == ApplyItemBody /\ UNCHANGED threads

\* lines 1551-1557: the loop is over, the counts are logged
ApplyFinish ==
    /\ apply_pc = "running"
    /\ idx > Len(file_items)
    /\ apply_pc' = "done"
    /\ log' = Append(log, Line("Update finished", 0, <<updated, skipped>>))
    /\ UNCHANGED <<file_items, excel_rows, project, session, now, idx, updated,
                   skipped, calls, requests, errors, auth_vars, ext_vars>>

(***************************************************************************)
(* AccAuthClient.authenticate and AccDocsWindow.on_sign_in                 *)
(***************************************************************************)
TimeoutSeconds == 180

\* granularity of the clock while a worker waits for the callback
TickSeconds == 90

\* the anti-forgery state generated by attempt w (Guid.NewGuid)
Guid(w) == <<"guid", w>>

NoStateParam == <<None>>

ForgedState == <<"forged">>

\* the query string of the request received by the listener
Callback(code, state, error) ==
    [arrived |-> TRUE, code |-> code, state |-> state, error |-> error]

NoCallback == [arrived |-> FALSE, code |-> None, state |-> NoStateParam, error |-> None]

\* callbacks attempt w can receive: also one that replays an earlier state
Callbacks(w) ==
    { Callback(c, st, e) :
        c \in {None, "", "c1"},
        st \in {NoStateParam, ForgedState} \cup { Guid(v) : v \in 1..w },
        e \in {None, "", "access_denied"} }

Worker(pc, state, callback, elapsed, listener, result, err_value, posted_code, ws) ==
    [pc |-> pc, state |-> state, callback |-> callback, elapsed |-> elapsed,
     listener |-> listener, result |-> result, err_value |-> err_value,
     posted_code |-> posted_code, session |-> ws]

NoWorker == Worker("idle", NoStateParam, NoCallback, 0, "none", None, None, None, NoSession)

WorkerIds == 1..MaxAttempts

Started == { w \in WorkerIds : workers[w].pc # "idle" }

InFlight == { w \in WorkerIds : workers[w].pc \notin {"idle", "done"} }

\* the test left out
BusyGuardMissing(flag) == FALSE

\* lines 1067-1068: the test that rejects a sign-in while one is pending
BusyGuard(flag) == flag

\* lines 1053-1124: on_sign_in, up to the start of the worker thread
OnSignIn ==
    /\ Len(sign_ins) < MaxAttempts
    /\ \E has_credentials \in BOOLEAN :
        IF ~has_credentials
        THEN /\ sign_ins' = Append(sign_ins, "no credentials")
             /\ UNCHANGED <<auth_in_progress, login_enabled, status_text, workers>>
        ELSE IF BusyGuard(auth_in_progress)
        THEN /\ sign_ins' = Append(sign_ins, "rejected")
             /\ UNCHANGED <<auth_in_progress, login_enabled, status_text, workers>>
        ELSE LET w == Cardinality(Started) + 1
             IN  /\ sign_ins' = Append(sign_ins, "started")
                 /\ auth_in_progress' = TRUE
                 /\ login_enabled' = FALSE
                 /\ status_text' = "Signing in..."
                 /\ workers' = [workers EXCEPT ![w] = [NoWorker EXCEPT !.pc = "start", !.state = Guid(w)]]
    /\ UNCHANGED <<ext_vars, pass_vars, session, now, requests, port_owner, cache>>

\* Stop called on the normal paths only, the timeout raising past it
ListenerAfterNoFinally(exit) == IF exit = "AuthTimeout" THEN "listening" ELSE "stopped"

\* lines 494-495: the finally clause, reached on every way out of the try block
ListenerAfter(exit) == "stopped"

\* the exception of authenticate leaves the worker for ui_fail (lines 1114-1120)
Fail(wk, result, err_value) ==
    [wk EXCEPT !.pc = "failed", !.result = result, !.err_value = err_value,
               !.listener = IF wk.listener = "listening" THEN ListenerAfter(result) ELSE wk.listener]

PortAfter(w, wk) == IF port_owner = w /\ wk.listener # "listening" THEN 0 ELSE port_owner

\* lines 462-469: the state is generated, the listener is created and started;
\* Start raises when the prefix is already registered, outside the try block
ListenerStart(w) ==
    /\ workers[w].pc = "start"
    /\ IF port_owner = 0
       THEN /\ workers' = [workers EXCEPT ![w].pc = "listening", ![w].listener = "listening"]
            /\ port_owner' = w
       ELSE /\ workers' = [workers EXCEPT ![w] = Fail(@, "ListenerStartFailed", None)]
            /\ UNCHANGED port_owner
    /\ UNCHANGED <<ext_vars, pass_vars, session, now, requests, auth_in_progress, login_enabled,
                   status_text, sign_ins, cache>>

\* lines 472-476: the browser is launched, the wait for the callback begins
LaunchBrowser(w) ==
    /\ workers[w].pc = "listening"
    /\ \E launched \in BOOLEAN :
        LET wk == IF launched THEN [workers[w] EXCEPT !.pc = "waiting"]
                  ELSE Fail(workers[w], "BrowserLaunchFailed", None)
        IN  /\ workers' = [workers EXCEPT ![w] = wk]
            /\ port_owner' = PortAfter(w, wk)
    /\ UNCHANGED <<ext_vars, pass_vars, session, now, requests, auth_in_progress, login_enabled,
                   status_text, sign_ins, cache>>

\* a wait with no timeout
TimedOutNever(elapsed) == FALSE

\* line 477: WaitOne gives up once timeout_seconds have elapsed; the clock of
\* the model does not run past the deadline of a pending wait
TimedOut(elapsed) == elapsed >= TimeoutSeconds

\* how long a wait is followed in the model
MaxElapsed == TimeoutSeconds + TickSeconds

\* time passes while the worker is blocked in WaitOne
Tick(w) ==
    /\ workers[w].pc = "waiting"
    /\ ~TimedOut(workers[w].elapsed)
    /\ workers[w].elapsed < MaxElapsed
    /\ LET left == TimeoutSeconds - workers[w].elapsed
           step == IF 0 < left /\ left < TickSeconds THEN left ELSE TickSeconds
       IN  /\ workers' = [workers EXCEPT ![w].elapsed = @ + step]
           /\ now' = now + step
    /\ UNCHANGED <<ext_vars, pass_vars, session, requests, auth_in_progress, login_enabled,
                   status_text, port_owner, sign_ins, cache>>

\* lines 477-478 and 494-495: no callback within the timeout
WaitTimesOut(w) ==
    /\ workers[w].pc = "waiting"
    /\ TimedOut(workers[w].elapsed)
    /\ LET wk == Fail(workers[w], "AuthTimeout", None)
       IN  /\ workers' = [workers EXCEPT ![w] = wk]
           /\ port_owner' = PortAfter(w, wk)
    /\ UNCHANGED <<ext_vars, pass_vars, session, now, requests, auth_in_progress, login_enabled,
                   status_text, sign_ins, cache>>

\* the comparison of the state left out
CallbackVerdictNoState(state, cb) ==
    IF Truthy(cb.error) THEN "AuthProviderError"
    ELSE IF ~Truthy(cb.code) THEN "MissingCode"
    ELSE "exchange"

\* the code tested before the error
CallbackVerdictCodeFirst(state, cb) ==
    IF ~Truthy(cb.code) THEN "MissingCode"
    ELSE IF Truthy(cb.error) THEN "AuthProviderError"
    ELSE IF state # cb.state THEN "StateMismatch"
    ELSE "exchange"

\* lines 486-491: what the query string of the callback leads to
CallbackVerdict(state, cb) ==
    IF Truthy(cb.error) THEN "AuthProviderError"
    ELSE IF ~Truthy(cb.code) THEN "MissingCode"
    ELSE IF state # cb.state THEN "StateMismatch"
    ELSE "exchange"

\* lines 479-493: the callback is read and answered, then the attempt fails or
\* the code is posted to the token endpoint (_exchange_code, lines 528-539)
CallbackArrives(w) ==
    /\ workers[w].pc = "waiting"
    /\ ~TimedOut(workers[w].elapsed)
    /\ \E cb \in Callbacks(w) :
        LET verdict == CallbackVerdict(workers[w].state, cb)
            got     == [workers[w] EXCEPT !.callback = cb]
            wk      == IF verdict = "exchange"
                       THEN [got EXCEPT !.pc = "exchange", !.posted_code = cb.code]
                       ELSE Fail(got, verdict,
                                 IF verdict = "AuthProviderError" THEN cb.error ELSE None)
        IN  /\ workers' = [workers EXCEPT ![w] = wk]
            /\ port_owner' = PortAfter(w, wk)
            /\ requests' = IF verdict = "exchange"
                           THEN Append(requests, Request("POST", "token", None, cb.code, None,
                                                         "authorization_code"))
                           ELSE requests
    /\ UNCHANGED <<ext_vars, pass_vars, session, now, auth_in_progress, login_enabled,
                   status_text, sign_ins, cache>>

\* answers of the token endpoint to the exchange: an error, a long-lived token,
\* a token that expires inside the margin, a response without refresh_token
\* and expires_in
ExchangeResponses ==
    { TokenError, TokenOk("t1", "r1", 3600), TokenOk("t2", "r2", 60), TokenOk("t3", "", 0) }

\* lines 539-540 and 493-495: the token endpoint answers the exchange
ExchangeAnswered(w) ==
    /\ workers[w].pc = "exchange"
    /\ \E resp \in ExchangeResponses :
        LET wk == IF resp.kind = "ok"
                  THEN [workers[w] EXCEPT !.pc = "authenticated",
                                          !.session = FromJson(resp, now),
                                          !.listener = ListenerAfter("ok")]
                  ELSE Fail(workers[w], "TransportError", None)
        IN  /\ workers' = [workers EXCEPT ![w] = wk]
            /\ port_owner' = PortAfter(w, wk)
    /\ UNCHANGED <<ext_vars, pass_vars, session, now, requests, auth_in_progress, login_enabled,
                   status_text, sign_ins, cache>>

HubResponses == { HttpError, HttpOk(None) }

\* lines 1077-1080: the data client is built on the new session, the hubs are listed
ListHubs(w) ==
    /\ workers[w].pc = "authenticated"
    /\ \E tokResp \in TokenResponses, httpResp \in HubResponses :
        LET r == Get(workers[w].session, now, "hubs", None, None, tokResp, httpResp)
        IN  /\ workers' = [workers EXCEPT
                  ![w] = IF r.raised
                         THEN [Fail(@, "HubListingFailed", r.err) EXCEPT !.session = r.session]
                         ELSE [@ EXCEPT !.pc = "succeeded", !.result = "ok", !.session = r.session]]
            /\ requests' = requests \o r.sent
    /\ UNCHANGED <<ext_vars, pass_vars, session, now, auth_in_progress, login_enabled,
                   status_text, port_owner, sign_ins, cache>>

\* the settings without acc_token and acc_token_expires
NoCache == [acc_token |-> None, acc_token_expires |-> 0]

\* a sign-in that leaves the settings as they are
CacheOfNothing(s) == NoCache

\* lines 1107-1108: what ui_success writes to the settings
CacheOf(s) == [acc_token |-> s.AccessToken, acc_token_expires |-> s.ExpiresAtUtc]

\* lines 1082-1113: ui_success on the UI thread; the loading of projects and
\* folders that the selection of the first hub sets off is not followed here
UiSuccess(w) ==
    /\ workers[w].pc = "succeeded"
    /\ session' = workers[w].session
    /\ status_text' = "Signed in"
    /\ login_enabled' = TRUE
    /\ auth_in_progress' = FALSE
    /\ cache' = CacheOf(workers[w].session)
    /\ workers' = [workers EXCEPT ![w].pc = "done"]
    /\ UNCHANGED <<ext_vars, pass_vars, now, requests, port_owner, sign_ins>>

\* lines 1114-1120: ui_fail on the UI thread
UiFail(w) ==
    /\ workers[w].pc = "failed"
    /\ status_text' = "Sign in failed"
    /\ login_enabled' = TRUE
    /\ auth_in_progress' = FALSE
    /\ workers' = [workers EXCEPT ![w].pc = "done"]
    /\ UNCHANGED <<ext_vars, pass_vars, session, now, requests, port_owner, sign_ins, cache>>

ThreadIds == {"ui", "worker"}

\* a method of AccDataClient: its HTTP method, the guards it runs before each
\* request, whether it follows next links
ClientOp(name, method, guards, paged) ==
    [name |-> name, method |-> method, guards |-> guards, paged |-> paged]

NoOp == ClientOp(None, None, 0, FALSE)

\* the last resource request a thread sent, with what its guards had seen
Sent(request, guards, guard_token, disturbed, partial) ==
    [request |-> request, guards |-> guards, guard_token |-> guard_token,
     disturbed |-> disturbed, partial |-> partial]

NothingSent == Sent(Request(None, None, None, 0, None, None), <<>>, None, FALSE, FALSE)

\* a thread that is not inside a call of the data client; the fields after
\* acc record what the thread saw and sent during the call
IdleThread ==
    [pc |-> "idle", op |-> NoOp, guards_left |-> 0, page |-> 0, acc |-> <<>>,
     fetched |-> <<>>, guards |-> <<>>, refresh_token_seen |-> None,
     token_posts |-> 0, reply |-> TokenError, reply_at |-> 0, guard_token |-> None,
     disturbed |-> FALSE, last_next |-> FALSE, sent |-> NothingSent, err |-> None]

\* how the session came to be: "none", "exchange" (with the token response) or
\* "cached"
Origin(kind, resp) == [kind |-> kind, resp |-> resp]

NoOrigin == Origin("none", TokenError)

\* lines 830-832: no tree yet
InitFoldersIdle ==
    /\ nodes = [n \in {"A", "B", "C", "D"} |->
                  [gone |-> TRUE, IsLoaded |-> FALSE, IsLoading |-> FALSE, Children |-> <<>>]]
    /\ folder_nodes = <<>>
    /\ folder_nav_stack = <<>>
    /\ generation = 0
    /\ child_listings = [n \in {"A", "B", "C", "D"} |-> 0]
    /\ folder_events = 0
    /\ last_folder_event = [event |-> "none", node |-> None, was_loaded |-> FALSE]
    /\ ui_queue = <<>>
    /\ ui_stack = <<>>

\* line 839: no spreadsheet chosen
InitExcelIdle ==
    /\ workbook = [opens |-> FALSE, sheets |-> <<>>]
    /\ excel_status = "none"
    /\ excel_diag = [sheet |-> 0, sheet_rows |-> 0, sheet_desc_rows |-> 0, rows_read |-> 0,
                     row_end |-> 0, col_end |-> 0, headers |-> {}]

\* the keys computed from a name: _normalize_name and _normalize_base of the
\* name, then of those keys, and _normalize_name of the base key
Keys(once, twice, base_once, base_twice, base_norm) ==
    [once |-> once, twice |-> twice, base_once |-> base_once, base_twice |-> base_twice,
     base_norm |-> base_norm]

NoKeys == Keys(NoneText, NoneText, NoneText, NoneText, NoneText)

\* no key is being computed
InitNamesIdle ==
    /\ norm_input = NoneText
    /\ norm_pc = "input"
    /\ norm_keys = NoKeys

\* no load by folder URL was asked for
InitUrlIdle ==
    /\ url_input = [project_id |-> None, selected |-> None]
    /\ url_pc = "idle"
    /\ url_candidates = <<>>
    /\ url_attempts = <<>>

\* what an invocation of on_apply_descriptions leaves to be seen
PassResult(lines, cs, errs, n_updated, n_skipped) ==
    [log |-> lines, calls |-> cs, errors |-> errs, updated |-> n_updated, skipped |-> n_skipped]

\* the first invocation of on_apply_descriptions is still to come
InitRerunIdle ==
    /\ run = 1
    /\ first_run = PassResult(<<>>, <<>>, <<>>, 0, 0)
    /\ replay = <<>>

\* no workbook is being read
InitScanIdle ==
    /\ scan_pc = "idle"
    /\ scan_k = 0
    /\ ws_local = 0
    /\ rng_local = 0
    /\ best_sheet = [sheet |-> 0, rows |-> 0, desc_rows |-> 0]
    /\ released_ws = {}
    /\ released_rng = {}
    /\ text_reads = [live |-> 0, dead |-> 0]

\* the window was constructed some time ago
InitStartupOver == startup_pc = "over"

\* no payload was handed to the BEP engine
InitBepIdle ==
    /\ bep_sessions = <<>>
    /\ bep_start_fresh = "false"
    /\ bep_block = <<>>

InitMoreIdle ==
    InitNamesIdle /\ InitUrlIdle /\ InitRerunIdle /\ InitStartupOver /\ InitScanIdle /\ InitBepIdle

\* no call of the data client is under way
InitClientIdle ==
    /\ threads = [th \in ThreadIds |-> IdleThread]
    /\ session_origin = NoOrigin
    /\ listing_pages = 1

InitExt == InitClientIdle /\ InitFoldersIdle /\ InitExcelIdle /\ InitMoreIdle

\* lines 836-840: the window after construction, nothing cached
InitWindow ==
    /\ auth_in_progress = FALSE
    /\ login_enabled = TRUE
    /\ status_text = ""
    /\ workers = [w \in WorkerIds |-> NoWorker]
    /\ port_owner = 0
    /\ sign_ins = <<>>
    /\ cache = NoCache

\* lines 841-842: no file list, no spreadsheet, no pass
InitPassIdle ==
    /\ file_items = <<>>
    /\ excel_rows = EmptyIndex
    /\ project = None
    /\ apply_pc = "idle"
    /\ idx = 0
    /\ updated = 0
    /\ skipped = 0
    /\ log = <<>>
    /\ calls = <<>>
    /\ errors = <<>>

InitAuth ==
    /\ InitPassIdle
    /\ session = NoSession
    /\ now = 0
    /\ requests = <<>>
    /\ InitWindow
    /\ InitExt

NextAuth ==
    \/ OnSignIn
    \/ \E w \in WorkerIds :
        \/ ListenerStart(w)
        \/ LaunchBrowser(w)
        \/ Tick(w)
        \/ WaitTimesOut(w)
        \/ CallbackArrives(w)
        \/ ExchangeAnswered(w)
        \/ ListHubs(w)
        \/ UiSuccess(w)
        \/ UiFail(w)

SpecAuth == InitAuth /\ [][NextAuth]_vars

InitRecon ==
    /\ file_items \in SeqsUpTo(ItemChoices, MaxItems)
    /\ \E rows \in SeqsUpTo(RowChoices, MaxRows) : excel_rows = BuildIndex(EmptyIndex, rows)
    /\ project \in {None, "b.p1"}
    /\ session \in SessionChoices
    /\ now = 0
    /\ apply_pc = "idle"
    /\ idx = 0
    /\ updated = 0
    /\ skipped = 0
    /\ log = <<>>
    /\ calls = <<>>
    /\ requests = <<>>
    /\ errors = <<>>
    /\ InitWindow
    /\ InitExt

NextRecon == ApplyRejected \/ ApplyStart \/ ApplyItem \/ ApplyFinish

SpecRecon == InitRecon /\ [][NextRecon]_vars

(***************************************************************************)
(* AccDataClient called from the UI thread and from a background worker    *)
(* (the hub loader, the folder URL loader) on one shared session           *)
(***************************************************************************)
MaxPages == 3

MaxClientTicks == 2

GetHubs == ClientOp("get_hubs", "GET", 1, FALSE)

GetProjects == ClientOp("get_projects", "GET", 1, TRUE)

GetTopFolders == ClientOp("get_top_folders", "GET", 1, FALSE)

GetFolderChildren == ClientOp("get_folder_children", "GET", 1, FALSE)

GetFilesInFolder == ClientOp("get_files_in_folder", "GET", 1, TRUE)

\* get_item_detail runs the guard itself and again inside _get
GetItemDetailOp == ClientOp("get_item_detail", "GET", 2, FALSE)

UpdateVersionDescriptionOp == ClientOp("update_version_description", "PATCH", 1, FALSE)

UpdateFileDescriptionOp == ClientOp("update_file_description", "PATCH", 1, FALSE)

\* the calls made on the UI thread
UiOps ==
    {GetHubs, GetProjects, GetTopFolders, GetFolderChildren, GetFilesInFolder,
     GetItemDetailOp, UpdateVersionDescriptionOp, UpdateFileDescriptionOp}

\* the calls made by _load_hubs_async and by the worker of on_load_folder_url
WorkerOps == {GetHubs, GetFilesInFolder}

\* a background worker that makes any call of the data client
OpsOfAnyThread(th) == UiOps

OpsOf(th) == IF th = "ui" THEN UiOps ELSE WorkerOps

\* one entry of a listing's data array
Entry(type, id) == [type |-> type, id |-> id]

\* links.next of a response: absent, or an object with the href of a page
NoLink == [is_object |-> FALSE, href |-> 0]

LinkTo(p) == [is_object |-> TRUE, href |-> p]

\* the data array of page p of a listing
PageEntries(op, p) ==
    IF op.name = "get_files_in_folder"
    THEN <<Entry("folders", <<"f", p>>), Entry("items", <<"i", p>>)>>
    ELSE IF op.name = "get_projects" THEN <<Entry("projects", <<"p", p>>)>>
    ELSE <<>>

Page(op, p, link) == [data |-> PageEntries(op, p), next |-> link]

\* what the service may answer to the request for page p: an error, or the
\* page with the link to the page after it
ServerResponses(op, p) ==
    { HttpError,
      HttpOk(Page(op, p, IF p < listing_pages THEN LinkTo(p + 1) ELSE NoLink)) }

\* a listing that stops after its first page
GetNextLinkFirstPageOnly(root) == 0

\* get_next_link, lines 1678-1683: the href of links.next, 0 for None
GetNextLink(root) == IF root.next.is_object THEN root.next.href ELSE 0

IsItemEntry(e) == e.type = "items"

\* lines 585-587 and 723-740: what a listing keeps of one page
Accumulate(op, acc, root) ==
    IF op.name = "get_files_in_folder" THEN acc \o SelectSeq(root.data, IsItemEntry)
    ELSE IF op.name = "get_projects" THEN acc \o root.data
    ELSE acc

\* lines 954-956: the session rebuilt from the settings store has an access
\* token and an expiry outside the margin, no refresh token
CachedSession == Session("t4", "", 210)

\* the token responses a session in use was built from: also one without
\* refresh_token and expires_in, and one whose lifetime ends two minutes
\* after the first tick of the clock
ClientExchangeResponses ==
    { r \in ExchangeResponses : r.kind = "ok" } \cup
    { Omitting(TokenOk("t5", "r5", 7), {"refresh_token", "expires_in"}),
      TokenOk("t6", "r6", TickSeconds + SafetyMarginSeconds) }

SessionOrigins ==
    { Origin("exchange", r) : r \in ClientExchangeResponses } \cup { Origin("cached", TokenError) }

\* answers of the token endpoint to a refresh
RefreshResponses ==
    { TokenError, TokenUnparsable, TokenOk("n1", "q1", 3600), TokenOk("n2", "q2", 60),
      Omitting(TokenOk("n3", "q3", 7), {"refresh_token", "expires_in"}) }

other_than_client == <<pass_vars, auth_vars, folder_vars, excel_vars, more_vars>>

\* what the calls of the data client do not change
client_env == <<session_origin, listing_pages>>

\* no such thread was started
NoThread == [IdleThread EXCEPT !.pc = "none"]

Busy(t) == t.pc \notin {"none", "idle", "returned", "raised"}

\* another thread is between the first and the last assignment of lines 513-515
MidWrite(th) ==
    \E o \in ThreadIds \ {th} : threads[o].pc \in {"write_refresh", "write_expiry"}

\* a method of the data client is entered
ClientCall(th) ==
    /\ threads[th].pc = "idle"
    /\ \E op \in OpsOf(th) :
        threads' = [threads EXCEPT ![th] =
                      [IdleThread EXCEPT !.pc = "guard", !.op = op,
                                         !.guards_left = op.guards, !.page = 1]]
    /\ UNCHANGED <<session, now, requests, client_env, other_than_client>>

\* _ensure_token returns to its caller: the next guard or the request follows
GuardReturn(t) ==
    [t EXCEPT !.guards_left = @ - 1,
              !.guard_token = session.AccessToken,
              !.reply = TokenError, !.reply_at = 0, !.refresh_token_seen = None,
              !.token_posts = 0,
              !.pc = IF t.guards_left - 1 > 0 THEN "guard" ELSE "send"]

\* line 719: the guard reads the expiry and the clock
Guard(th) ==
    /\ threads[th].pc = "guard"
    /\ LET obs == [expiry |-> session.ExpiresAtUtc, at |-> now, refreshed |-> FALSE]
           t   == [threads[th] EXCEPT !.guards = Append(@, obs), !.disturbed = FALSE]
       IN  threads' = [threads EXCEPT ![th] =
                         IF InMargin(session, now) THEN [t EXCEPT !.pc = "refresh"]
                         ELSE GuardReturn(t)]
    /\ UNCHANGED <<session, now, requests, client_env, other_than_client>>

\* lines 498-510: refresh tests the refresh token and posts it; token_posts
\* counts the requests this refresh sent to the token endpoint
RefreshStart(th) ==
    /\ threads[th].pc = "refresh"
    /\ IF ~HasRefreshToken(session)
       THEN /\ threads' = [threads EXCEPT ![th].pc = "raised",
                                          ![th].err = "NoRefreshToken",
                                          ![th].token_posts = 0,
                                          ![th].refresh_token_seen = session.RefreshToken]
       ELSE /\ threads' = [threads EXCEPT ![th].pc = "refresh_wait",
                                          ![th].token_posts = 1,
                                          ![th].refresh_token_seen = session.RefreshToken]
    /\ UNCHANGED <<session, now, requests, client_env, other_than_client>>

\* an answer of the token endpoint is read into the session whatever it is
RejectedNever(resp) == FALSE

\* lines 510-511: http_send raises on a transport or provider error, from_json
\* on a text that is not a JSON object
Rejected(resp) == resp.kind # "ok"

\* lines 510-512: the token endpoint answers, from_json reads the clock
RefreshAnswered(th) ==
    /\ threads[th].pc = "refresh_wait"
    /\ \E resp \in RefreshResponses :
        threads' = [threads EXCEPT ![th] =
                      IF Rejected(resp)
                      THEN [@ EXCEPT !.pc = "raised", !.err = "RefreshFailed"]
                      ELSE [@ EXCEPT !.pc = "write_access", !.reply = resp, !.reply_at = now]]
    /\ UNCHANGED <<session, now, requests, client_env, other_than_client>>

\* lines 513-515: the three fields of the shared session are assigned one
\* after the other
SessionWrite(th) ==
    /\ threads[th].pc \in {"write_access", "write_refresh", "write_expiry"}
    /\ LET t   == threads[th]
           upd == FromJson(t.reply, t.reply_at)
           me  == CASE t.pc = "write_access"  -> [t EXCEPT !.pc = "write_refresh"]
                    [] t.pc = "write_refresh" -> [t EXCEPT !.pc = "write_expiry"]
                    [] t.pc = "write_expiry"  ->
                         [t EXCEPT !.pc = "refreshed",
                                   !.guards[Len(t.guards)].refreshed = TRUE]
       IN  /\ session' = CASE t.pc = "write_access"  -> [session EXCEPT !.AccessToken = upd.AccessToken]
                           [] t.pc = "write_refresh" -> [session EXCEPT !.RefreshToken = upd.RefreshToken]
                           [] t.pc = "write_expiry"  -> [session EXCEPT !.ExpiresAtUtc = upd.ExpiresAtUtc]
           /\ threads' = [o \in ThreadIds |->
                            IF o = th THEN me
                            ELSE IF Busy(threads[o]) THEN [threads[o] EXCEPT !.disturbed = TRUE]
                            ELSE threads[o]]
    /\ UNCHANGED <<now, requests, client_env, other_than_client>>

\* refresh is over, _ensure_token returns
GuardReturns(th) ==
    /\ threads[th].pc = "refreshed"
    /\ threads' = [threads EXCEPT ![th] = GuardReturn(@)]
    /\ UNCHANGED <<session, now, requests, client_env, other_than_client>>

\* lines 707-708 and 696-703: the Bearer header is built from the session and
\* the request is sent
Send(th) ==
    /\ threads[th].pc = "send"
    /\ LET t      == threads[th]
           bearer == session.AccessToken
           req    == Request(t.op.method, t.op.name, None, t.page, bearer, None)
       IN  threads' = [threads EXCEPT
                         ![th].pc = "wait",
                         ![th].guards = <<>>,
                         ![th].guard_token = None,
                         ![th].disturbed = FALSE,
                         ![th].fetched = Append(@, t.page),
                         ![th].sent = Sent(req, t.guards, t.guard_token, t.disturbed,
                                           MidWrite(th))]
    /\ UNCHANGED <<session, now, requests, client_env, other_than_client>>

\* the service answers: the call raises, goes on with the next page or returns
Answered(th) ==
    /\ threads[th].pc = "wait"
    /\ \E resp \in ServerResponses(threads[th].op, threads[th].page) :
        LET t == [threads[th] EXCEPT !.sent = NothingSent]
        IN  threads' = [threads EXCEPT ![th] =
              IF resp.kind # "ok"
              THEN [t EXCEPT !.pc = "raised", !.err = "TransportError"]
              ELSE LET next_url == IF t.op.paged THEN GetNextLink(resp.body) ELSE 0
                       kept     == [t EXCEPT !.acc = Accumulate(t.op, t.acc, resp.body),
                                             !.last_next = resp.body.next.is_object]
                   IN  IF next_url # 0
                       THEN [kept EXCEPT !.pc = "guard", !.page = next_url,
                                         !.guards_left = t.op.guards]
                       ELSE [kept EXCEPT !.pc = "returned"]]
    /\ UNCHANGED <<session, now, requests, client_env, other_than_client>>

\* time passes between two calls and while a thread waits for an answer
ClientTick ==
    /\ now < MaxClientTicks * TickSeconds
    /\ \E th \in ThreadIds : threads[th].pc \in {"idle", "refresh_wait", "wait"}
    /\ \A th \in ThreadIds :
          threads[th].pc \in {"none", "idle", "refresh_wait", "wait", "returned", "raised"}
    /\ now' = now + TickSeconds
    /\ UNCHANGED <<session, threads, requests, client_env, other_than_client>>

\* the window is signed in, by the exchange of a code or from the cached token
InitSignedIn ==
    /\ InitPassIdle
    /\ InitWindow
    /\ now = 0
    /\ requests = <<>>
    /\ session_origin \in SessionOrigins
    /\ session = IF session_origin.kind = "exchange"
                 THEN FromJson(session_origin.resp, 0)
                 ELSE CachedSession

\* the calls of the UI thread, no background work going on
InitClient ==
    /\ InitSignedIn
    /\ threads = [th \in ThreadIds |-> IF th = "ui" THEN IdleThread ELSE NoThread]
    /\ listing_pages \in 1..MaxPages
    /\ InitFoldersIdle
    /\ InitExcelIdle
    /\ InitMoreIdle

ThreadStep(th) ==
    \/ ClientCall(th)
    \/ Guard(th)
    \/ RefreshStart(th)
    \/ RefreshAnswered(th)
    \/ SessionWrite(th)
    \/ GuardReturns(th)
    \/ Send(th)
    \/ Answered(th)

NextClient == ClientTick \/ \E th \in ThreadIds : ThreadStep(th)

SpecClient == InitClient /\ [][NextClient]_vars

\* a background loader is at work while the UI thread calls the data client
InitThreads ==
    /\ InitSignedIn
    /\ threads = [th \in ThreadIds |-> IdleThread]
    /\ listing_pages = 1
    /\ InitFoldersIdle
    /\ InitExcelIdle
    /\ InitMoreIdle

NextThreads == \E th \in ThreadIds : ThreadStep(th)

SpecThreads == InitThreads /\ [][NextThreads]_vars

(***************************************************************************)
(* The folder tree: load_top_folders, on_folder_expanded,                  *)
(* on_folder_double_click, _expand_folder_node                             *)
(***************************************************************************)
MaxFolderEvents == 4

\* the folders of the project: A and B at the top, C and D inside A
FolderIds == {"A", "B", "C", "D"}

TopFolderIds == <<"A", "B">>

\* the top folder named "Project Files"
ProjectFilesId == "A"

\* the subfolders the service lists for a folder
ServerChildren(id) == IF id = "A" THEN <<"C", "D">> ELSE <<>>

\* the child FolderNode("", "", True) every new node is given
Placeholder == "<placeholder>"

\* the node "..", FolderNode("", "..", False, True)
UpLevel == "<up>"

\* a FolderNode; gone is TRUE for an id no node object stands for
Node(gone, is_loaded, is_loading, children) ==
    [gone |-> gone, IsLoaded |-> is_loaded, IsLoading |-> is_loading, Children |-> children]

\* lines 760-769: a node as its constructor leaves it
NewNode == Node(FALSE, FALSE, FALSE, <<Placeholder>>)

NoNode == Node(TRUE, FALSE, FALSE, <<>>)

\* what get_folder_children does: it raises or returns the subfolders
ChildListingOutcomes == {"raised", "returned"}

\* the last request made to the tree
FolderEvent(event, node, was_loaded) == [event |-> event, node |-> node, was_loaded |-> was_loaded]

\* every request lists the children again
AlreadyLoadedNever(node) == FALSE

\* lines 1209 and 1295: the test on IsLoaded
AlreadyLoaded(node) == node.IsLoaded

Range(t) == { t[k] : k \in 1..Len(t) }

\* lines 1230-1235: _expand_folder_node on node id, the listing having returned:
\* the children are replaced by new nodes, the node is marked loaded
ExpandedNodes(ns, id) ==
    [n \in FolderIds |->
        IF n = id THEN [ns[n] EXCEPT !.Children = ServerChildren(id), !.IsLoaded = TRUE]
        ELSE IF n \in Range(ServerChildren(id)) THEN NewNode
        ELSE ns[n]]

\* _expand_folder_node with its call of get_folder_children
ExpandFolderNode(id, outcome) ==
    /\ child_listings' = [child_listings EXCEPT ![id] = @ + 1]
    /\ nodes' = IF outcome = "returned" THEN ExpandedNodes(nodes, id) ELSE nodes

\* lines 1165-1204: load_top_folders, run when a project is selected and by
\* the refresh button; the tree is rebuilt from new node objects
LoadTopFolders ==
    /\ folder_events < MaxFolderEvents
    /\ folder_events' = folder_events + 1
    /\ generation' = generation + 1
    /\ folder_nav_stack' = <<>>
    /\ last_folder_event' = FolderEvent("load_top_folders", None, FALSE)
    /\ \E top \in ChildListingOutcomes, outcome \in ChildListingOutcomes :
        IF top = "raised"
        THEN /\ folder_nodes' = <<>>
             /\ nodes' = [n \in FolderIds |-> NoNode]
             /\ child_listings' = [n \in FolderIds |-> 0]
        ELSE LET fresh == [n \in FolderIds |-> IF n \in Range(TopFolderIds) THEN NewNode ELSE NoNode]
             IN  /\ folder_nodes' = TopFolderIds
                 /\ child_listings' = [n \in FolderIds |-> IF n = ProjectFilesId THEN 1 ELSE 0]
                 /\ nodes' = IF outcome = "returned" THEN ExpandedNodes(fresh, ProjectFilesId)
                             ELSE fresh
    /\ UNCHANGED <<ui_queue, ui_stack>>
    /\ UNCHANGED <<client_vars, excel_vars, more_vars, pass_vars, auth_vars, session, now, requests>>

\* lines 1206-1228: the tree reports that the item of a node was expanded
OnFolderExpanded(id) ==
    /\ folder_events < MaxFolderEvents
    /\ ~nodes[id].gone
    /\ folder_events' = folder_events + 1
    /\ last_folder_event' = FolderEvent("expanded", id, nodes[id].IsLoaded)
    /\ IF AlreadyLoaded(nodes[id])
       THEN UNCHANGED <<nodes, child_listings>>
       ELSE \E outcome \in ChildListingOutcomes : ExpandFolderNode(id, outcome)
    /\ UNCHANGED <<folder_nodes, folder_nav_stack, generation, ui_queue, ui_stack>>
    /\ UNCHANGED <<client_vars, excel_vars, more_vars, pass_vars, auth_vars, session, now, requests>>

\* the children of a node that are not placeholders
RealChildren(node) == SelectSeq(node.Children, LAMBDA c : c # Placeholder)

\* lines 1265-1323: a double click on the selected node: ".." goes back one
\* level, a folder is loaded if need be and its subfolders are shown
OnFolderDoubleClick(id) ==
    /\ folder_events < MaxFolderEvents
    /\ id \in Range(folder_nodes)
    /\ folder_events' = folder_events + 1
    /\ IF id = UpLevel
       THEN /\ last_folder_event' = FolderEvent("double_click", id, FALSE)
            /\ IF folder_nav_stack # <<>>
               THEN /\ folder_nodes' = folder_nav_stack[Len(folder_nav_stack)]
                    /\ folder_nav_stack' = SubSeq(folder_nav_stack, 1, Len(folder_nav_stack) - 1)
               ELSE UNCHANGED <<folder_nodes, folder_nav_stack>>
            /\ UNCHANGED <<nodes, child_listings>>
       ELSE /\ last_folder_event' = FolderEvent("double_click", id, nodes[id].IsLoaded)
            /\ IF AlreadyLoaded(nodes[id])
               THEN UNCHANGED <<nodes, child_listings>>
               ELSE \E outcome \in ChildListingOutcomes : ExpandFolderNode(id, outcome)
            /\ LET children == RealChildren(nodes'[id])
               IN  IF nodes'[id].IsLoaded /\ children # <<>>
                   THEN /\ folder_nav_stack' = Append(folder_nav_stack, folder_nodes)
                        /\ folder_nodes' = <<UpLevel>> \o children
                   ELSE UNCHANGED <<folder_nodes, folder_nav_stack>>
    /\ UNCHANGED <<generation, ui_queue, ui_stack>>
    /\ UNCHANGED <<client_vars, excel_vars, more_vars, pass_vars, auth_vars, session, now, requests>>

\* a project is selected, its top folders are about to be loaded
InitFolders ==
    /\ InitPassIdle
    /\ InitWindow
    /\ InitClientIdle
    /\ InitExcelIdle
    /\ InitMoreIdle
    /\ session = Session("t1", "r1", 3600)
    /\ now = 0
    /\ requests = <<>>
    /\ InitFoldersIdle

NextFolders ==
    \/ LoadTopFolders
    \/ \E id \in FolderIds : OnFolderExpanded(id)
    \/ \E id \in FolderIds \cup {UpLevel} : OnFolderDoubleClick(id)

SpecFolders == InitFolders /\ [][NextFolders]_vars

(***************************************************************************)
(* ExcelReader.read_excel and AccDocsWindow.on_browse_excel                *)
(***************************************************************************)
MaxSheets == 3

\* a cell of column A: what Value2 holds and what the Text property gives
\* (NoneText for None), both texts
Cell(value, text) == [value |-> value, text |-> text]

\* one data row of a sheet: its cells in columns A, B and C, the latter two
\* with value and text None, " " or a description
DataRow(a, b, c) == [a |-> a, b |-> b, c |-> c]

\* a worksheet: "grid" when UsedRange.Value2 is read as a rectangle,
\* "no_range" when its bounds are empty, "unreadable" when reading it raises;
\* cols is the number of columns of the range, headers the texts of its first
\* row, rows the rows after the first
Sheet(kind, cols, headers, rows) ==
    [kind |-> kind, cols |-> cols, headers |-> headers, rows |-> rows]

\* str(v).strip() on a text
StripText(t) == Strip(t)

\* str(v).strip() on a description
StripDesc(v) == IF v = " " THEN "" ELSE v

\* lines 276-278: the read of column A that scores a sheet falls back on the
\* text only when the value is None
ScoreReadA(cell) == IF cell.value = NoneText THEN cell.text ELSE cell.value

\* lines 285-287: the same for column B
ScoreReadB(cell) == IF cell.value = None THEN cell.text ELSE cell.value

CountsA(v) == v # NoneText /\ StripText(v) # <<>>

CountsB(v) == v # None /\ StripDesc(v) # ""

\* number of the elements of a sequence that satisfy Test
RECURSIVE CountRowsA(_)
CountRowsA(rows) ==
    IF rows = <<>> THEN 0
    ELSE (IF CountsA(ScoreReadA(Head(rows).a)) THEN 1 ELSE 0) + CountRowsA(Tail(rows))

RECURSIVE CountRowsB(_)
CountRowsB(rows) ==
    IF rows = <<>> THEN 0
    ELSE (IF CountsB(ScoreReadB(Head(rows).b)) THEN 1 ELSE 0) + CountRowsB(Tail(rows))

\* lines 266-288: rows and desc_rows of a sheet; column B counts only when
\* the range has a second column
Score(sheet) ==
    [rows |-> CountRowsA(sheet.rows),
     desc_rows |-> IF sheet.cols >= 2 THEN CountRowsB(sheet.rows) ELSE 0]

\* every sheet is scored, whatever became of its range
SheetSkippedNever(sheet) == FALSE

\* lines 248-264 and 317-322: the sheet is passed over when its range cannot
\* be read or has empty bounds
SheetSkipped(sheet) == sheet.kind # "grid"

\* the best sheet so far: its position (0 for none) and its counts
Best(sheet, rows, desc_rows) == [sheet |-> sheet, rows |-> rows, desc_rows |-> desc_rows]

\* lines 217-227
NoBest == Best(0, 0, 0)

\* a later sheet that ties on both counts takes over
PickTiesToo(score, best) ==
    \/ score.desc_rows > best.desc_rows
    \/ score.desc_rows = best.desc_rows /\ score.rows >= best.rows

\* lines 290-294
Pick(score, best) ==
    \/ score.desc_rows > best.desc_rows
    \/ score.desc_rows = best.desc_rows /\ score.rows > best.rows

\* lines 247-322: the loop over the sheets, from sheet k on
RECURSIVE SelectSheet(_, _, _)
SelectSheet(sheets, k, best) ==
    IF k > Len(sheets) THEN best
    ELSE IF SheetSkipped(sheets[k]) THEN SelectSheet(sheets, k + 1, best)
    ELSE LET score == Score(sheets[k])
         IN  SelectSheet(sheets, k + 1,
                         IF Pick(score, best) THEN Best(k, score.rows, score.desc_rows)
                         ELSE best)

\* lines 385-392: the file name of a data row, <<>> when the row is passed over
FileNameOf(cell) ==
    LET file_val == IF cell.value = NoneText \/ StripText(cell.value) = <<>>
                    THEN cell.text ELSE cell.value
    IN  IF file_val = NoneText THEN <<>> ELSE StripText(file_val)

\* lines 364-376: the header texts of the first row, normalized
HeaderOf(sheet, col) == NormalizeName(sheet.headers[col])

\* the column headed "desc", column B when there is none
DescriptionIndexByHeader(sheet) ==
    IF \E col \in 1..sheet.cols : HeaderOf(sheet, col) = <<"d", "e", "s", "c">>
    THEN CHOOSE col \in 1..sheet.cols : HeaderOf(sheet, col) = <<"d", "e", "s", "c">>
    ELSE IF 2 <= sheet.cols THEN 2 ELSE -1

\* lines 378-381: the column the descriptions are read from, -1 for none
DescriptionIndex(sheet) == IF 2 <= sheet.cols THEN 2 ELSE -1

\* safe_get(row, col) and safe_get_text(row, col) on a column of descriptions
DescCell(row, col) == IF col = 2 THEN row.b ELSE IF col = 3 THEN row.c ELSE Cell(None, None)

\* lines 394-400: the description of a data row
DescriptionOf(sheet, row) ==
    LET description_index == DescriptionIndex(sheet)
    IN  IF ~(description_index >= 1 /\ description_index <= sheet.cols) THEN ""
        ELSE LET cell     == DescCell(row, description_index)
                 desc_val == IF cell.value = None \/ StripDesc(cell.value) = ""
                             THEN cell.text ELSE cell.value
             IN  IF desc_val = None THEN "" ELSE StripDesc(desc_val)

\* lines 384-411: the rows accepted from the selected sheet, in order
RECURSIVE AcceptedRows(_, _)
AcceptedRows(sheet, rows) ==
    IF rows = <<>> THEN <<>>
    ELSE LET file_name == FileNameOf(Head(rows).a)
             rest      == AcceptedRows(sheet, Tail(rows))
         IN  IF file_name = <<>> THEN rest
             ELSE <<ExcelRow(file_name, DescriptionOf(sheet, Head(rows)))>> \o rest

\* LastDiagnostics: the sheet read, its counts, the rows registered, the last
\* row and column of its range (0 for None, the first being 1), its headers
Diagnostics(sheet, sheet_rows, sheet_desc_rows, rows_read, row_end, col_end, headers) ==
    [sheet |-> sheet, sheet_rows |-> sheet_rows, sheet_desc_rows |-> sheet_desc_rows,
     rows_read |-> rows_read, row_end |-> row_end, col_end |-> col_end, headers |-> headers]

\* lines 184-197
NoDiagnostics == Diagnostics(0, 0, 0, 0, 0, 0, {})

\* lines 364-376: the keys of the headers dictionary
HeaderKeys(sheet) == { HeaderOf(sheet, col) : col \in 1..Len(sheet.headers) } \ {<<>>}

\* lines 182-419: read_excel on a workbook that opens, the Worksheet object of
\* the selected sheet being live when its rows are read (a sheet that cannot be
\* read raising at Value2)
ReadExcel(sheets) ==
    LET best == SelectSheet(sheets, 1, NoBest)
    IN  IF best.sheet = 0
        THEN [result |-> EmptyIndex, diag |-> NoDiagnostics]
        ELSE LET sheet == sheets[best.sheet]
                 rows  == AcceptedRows(sheet, sheet.rows)
             IN  [result |-> BuildIndex(EmptyIndex, rows),
                  diag |-> Diagnostics(best.sheet, best.rows, best.desc_rows, Len(rows),
                                       Len(sheet.rows) + 1, sheet.cols, HeaderKeys(sheet))]

\* the cells of column A: empty, text only in the Text property, a blank value
\* over a text, an ordinary name
EmptyCellA == Cell(NoneText, <<>>)

TextOnlyCellA == Cell(NoneText, <<"p", ".", "d">>)

BlankValueCellA == Cell(<<" ">>, <<"b", " ", "a">>)

NameCellA == Cell(<<"P", ".", "x">>, <<"P", ".", "x">>)

\* the cells of column B, alike
EmptyCellB == Cell(None, "")

TextOnlyCellB == Cell(None, "d1")

BlankValueCellB == Cell(" ", "d3")

DescCellB == Cell("d2", "d2")

\* a cell of column C with a description of its own
DescCellC == Cell("d4", "d4")

\* a file name made of a left-to-right mark alone
MarkOnlyCellA == Cell(<<"LRM">>, <<"LRM">>)

\* the first rows: names and descriptions headed as such, the descriptions
\* headed in column C, and a single column
PlainHeaders == <<<<"n", "a", "m", "e">>, <<"D", "e", "s", "c">>>>

HeadersDescInC == <<<<"n", "a", "m", "e">>, <<"r", "e", "v">>, <<"D", "e", "s", "c">>>>

OneHeader == <<<<"n", "a", "m", "e">>>>

\* the worksheets a workbook is made of: two whose range cannot be used, a
\* blank one, one with nothing in columns A and B, five with rows in two
\* columns at most, two with the descriptions headed in column C, and one
\* with a name made of a directional mark
SheetChoices ==
    { Sheet("unreadable", 2, PlainHeaders,
            <<DataRow(NameCellA, DescCellB, EmptyCellB), DataRow(NameCellA, DescCellB, EmptyCellB)>>),
      Sheet("no_range", 2, PlainHeaders,
            <<DataRow(NameCellA, DescCellB, EmptyCellB), DataRow(NameCellA, DescCellB, EmptyCellB)>>),
      Sheet("grid", 1, <<>>, <<>>),
      Sheet("grid", 2, PlainHeaders, <<DataRow(EmptyCellA, EmptyCellB, EmptyCellB)>>),
      Sheet("grid", 1, OneHeader,
            <<DataRow(NameCellA, EmptyCellB, EmptyCellB), DataRow(TextOnlyCellA, EmptyCellB, EmptyCellB)>>),
      Sheet("grid", 2, PlainHeaders,
            <<DataRow(NameCellA, DescCellB, EmptyCellB), DataRow(TextOnlyCellA, EmptyCellB, EmptyCellB)>>),
      Sheet("grid", 2, PlainHeaders, <<DataRow(EmptyCellA, TextOnlyCellB, EmptyCellB)>>),
      Sheet("grid", 2, PlainHeaders, <<DataRow(TextOnlyCellA, TextOnlyCellB, EmptyCellB)>>),
      Sheet("grid", 2, PlainHeaders, <<DataRow(BlankValueCellA, BlankValueCellB, EmptyCellB)>>),
      Sheet("grid", 3, HeadersDescInC, <<DataRow(NameCellA, DescCellB, DescCellC)>>),
      Sheet("grid", 3, HeadersDescInC,
            <<DataRow(TextOnlyCellA, EmptyCellB, DescCellC), DataRow(NameCellA, EmptyCellB, DescCellC)>>),
      Sheet("grid", 2, PlainHeaders,
            <<DataRow(MarkOnlyCellA, DescCellB, EmptyCellB), DataRow(NameCellA, TextOnlyCellB, EmptyCellB)>>) }

\* a workbook: whether Excel opens it, and its sheets in order
Workbook(opens, sheets) == [opens |-> opens, sheets |-> sheets]

Workbooks ==
    { Workbook(o, sh) : o \in BOOLEAN,
                        sh \in UNION { [1..k -> SheetChoices] : k \in 1..MaxSheets } }

\* lines 1425-1451: on_browse_excel with a file chosen in the dialog; a load
\* that raises leaves _excel_rows None, which the pass treats as no rows
OnBrowseExcel ==
    /\ excel_status = "none"
    /\ IF workbook.opens
       THEN LET read == ReadExcel(workbook.sheets)
            IN  /\ excel_rows' = read.result
                /\ excel_diag' = read.diag
                /\ excel_status' = "loaded"
       ELSE /\ excel_rows' = EmptyIndex
            /\ excel_diag' = excel_diag
            /\ excel_status' = "failed"
    /\ UNCHANGED <<workbook, client_vars, folder_vars, more_vars, auth_vars, session, now, requests>>
    /\ UNCHANGED <<file_items, project, apply_pc, idx, updated, skipped, log, calls, errors>>

InitExcel ==
    /\ InitPassIdle
    /\ InitWindow
    /\ InitClientIdle
    /\ InitFoldersIdle
    /\ session = NoSession
    /\ now = 0
    /\ requests = <<>>
    /\ InitMoreIdle
    /\ workbook \in Workbooks
    /\ excel_status = "none"
    /\ excel_diag = NoDiagnostics

NextExcel == OnBrowseExcel

SpecExcel == InitExcel /\ [][NextExcel]_vars

(***************************************************************************)
(* The keys of a name: _normalize_name and _normalize_base applied to a    *)
(* name and to their own results                                           *)
(***************************************************************************)
MaxNameLen == 4

\* the characters names are made of: a lower-case and an upper-case letter,
\* the dot, three kinds of whitespace, a directional mark and a dash
Alphabet == {"a", "P", ".", " ", "NBSP", "TAB", "LRM", "ENDASH"}

Names == UNION { [1..n -> Alphabet] : n \in 0..MaxNameLen }

\* lines 1483-1486 and 408-409: the keys of a name are computed
ComputeKeys ==
    /\ norm_pc = "input"
    /\ norm_pc' = "once"
    /\ norm_keys' = [norm_keys EXCEPT !.once = NormalizeName(norm_input),
                                      !.base_once = NormalizeBase(norm_input)]
    /\ UNCHANGED <<norm_input, url_vars, rerun_vars, bep_vars, startup_vars, scan_vars>>
    /\ UNCHANGED <<client_vars, folder_vars, excel_vars>>
    /\ UNCHANGED <<pass_vars, auth_vars, session, now, requests>>

\* the two functions are applied to the keys they returned
ComputeKeysOfKeys ==
    /\ norm_pc = "once"
    /\ norm_pc' = "twice"
    /\ norm_keys' = [norm_keys EXCEPT !.twice = NormalizeName(norm_keys.once),
                                      !.base_twice = NormalizeBase(norm_keys.base_once),
                                      !.base_norm = NormalizeName(norm_keys.base_once)]
    /\ UNCHANGED <<norm_input, url_vars, rerun_vars, bep_vars, startup_vars, scan_vars>>
    /\ UNCHANGED <<client_vars, folder_vars, excel_vars>>
    /\ UNCHANGED <<pass_vars, auth_vars, session, now, requests>>

InitNames ==
    /\ InitPassIdle
    /\ InitWindow
    /\ InitClientIdle
    /\ InitFoldersIdle
    /\ InitExcelIdle
    /\ session = NoSession
    /\ now = 0
    /\ requests = <<>>
    /\ InitUrlIdle
    /\ InitRerunIdle
    /\ InitStartupOver
    /\ InitScanIdle
    /\ InitBepIdle
    /\ norm_input \in Names
    /\ norm_pc = "input"
    /\ norm_keys = NoKeys

NextNames == ComputeKeys \/ ComputeKeysOfKeys

SpecNames == InitNames /\ [][NextNames]_vars

(***************************************************************************)
(* AccDocsWindow.on_load_folder_url and _normalize_project_id              *)
(***************************************************************************)
\* the project ids a folder URL can carry: none, a bare id, the same between
\* blanks, the id with a prefix, the id as the tail of a urn
UrlProjectIds == {None, "p1", " p1 ", "b.p1", "a.p1", "urn:adsk:p1", "urn:adsk:b.p1"}

\* the project selected in the list, if any
SelectedProjects == {None, "b.p1", "b.p2"}

\* project_id.strip()
StripId(id) == IF id = " p1 " THEN "p1" ELSE id

\* lines 1600-1605: the last segment of a urn
UrnTail(id) ==
    CASE id = "urn:adsk:p1" -> "p1"
      [] id = "urn:adsk:b.p1" -> "b.p1"
      [] OTHER -> id

\* pid.startswith("b.") or pid.startswith("a.")
HasPrefix(id) == id \in {"b.p1", "a.p1", "b.p2"}

\* "b." + pid and "a." + pid
WithPrefix(prefix, id) ==
    CASE prefix = "b." /\ id = "p1" -> "b.p1"
      [] prefix = "a." /\ id = "p1" -> "a.p1"
      [] OTHER -> "<other>"

\* lines 1610-1615: the sequence without the empty and the repeated entries
RECURSIVE DeDupe(_, _)
DeDupe(ids, result) ==
    IF ids = <<>> THEN result
    ELSE DeDupe(Tail(ids),
                IF Head(ids) # "" /\ \A k \in 1..Len(result) : result[k] # Head(ids)
                THEN Append(result, Head(ids)) ELSE result)

\* lines 1595-1615
NormalizeProjectId(project_id) ==
    IF ~Truthy(project_id) THEN <<>>
    ELSE LET pid == UrnTail(StripId(project_id))
         IN  DeDupe(IF HasPrefix(pid) THEN <<pid>>
                    ELSE <<pid, WithPrefix("b.", pid), WithPrefix("a.", pid)>>, <<>>)

\* lines 1369-1375: the candidates of a URL and a selected project
Candidates(project_id, selected) ==
    LET from_url == NormalizeProjectId(project_id)
    IN  IF selected # None /\ \A k \in 1..Len(from_url) : from_url[k] # selected
        THEN Append(from_url, selected) ELSE from_url

\* what get_files_in_folder does for a candidate: it returns the files, it
\* raises with "Invalid project id" in the message, or it raises otherwise
ListingOutcomes == {"returned", "InvalidProjectId", "OtherError"}

Attempt(pid, outcome) == [pid |-> pid, outcome |-> outcome]

\* every error makes the worker go on to the next candidate
GoesOnAfterAnyError(outcome) == outcome # "returned"

\* lines 1407-1410: the worker goes on to the next candidate only after an
\* error that names an invalid project id
GoesOnAfter(outcome) == outcome = "InvalidProjectId"

\* lines 1359-1423, up to the start of the worker; the URL has a folder id
OnLoadFolderUrl ==
    /\ url_pc = "idle"
    /\ url_candidates' = Candidates(url_input.project_id, url_input.selected)
    /\ url_pc' = IF url_candidates' = <<>> THEN "rejected" ELSE "working"
    /\ UNCHANGED <<url_input, url_attempts>>
    /\ UNCHANGED <<names_vars, rerun_vars, bep_vars, startup_vars, scan_vars>>
    /\ UNCHANGED <<client_vars, folder_vars, excel_vars>>
    /\ UNCHANGED <<pass_vars, auth_vars, session, now, requests>>

\* lines 1391-1411: the worker tries the next candidate
WorkerTry ==
    /\ url_pc = "working"
    /\ Len(url_attempts) < Len(url_candidates)
    /\ \E outcome \in ListingOutcomes :
        /\ url_attempts' = Append(url_attempts,
                                  Attempt(url_candidates[Len(url_attempts) + 1], outcome))
        /\ url_pc' = IF outcome = "returned" THEN "ui_ok"
                     ELSE IF GoesOnAfter(outcome) /\ Len(url_attempts') < Len(url_candidates)
                          THEN "working"
                          ELSE "ui_fail"
    /\ UNCHANGED <<url_input, url_candidates>>
    /\ UNCHANGED <<names_vars, rerun_vars, bep_vars, startup_vars, scan_vars>>
    /\ UNCHANGED <<client_vars, folder_vars, excel_vars>>
    /\ UNCHANGED <<pass_vars, auth_vars, session, now, requests>>

\* lines 1396-1405: ui_ok puts the files into the list
UiOk ==
    /\ url_pc = "ui_ok"
    /\ url_pc' = "loaded"
    /\ \E files \in SeqsUpTo(ItemChoices, 1) : file_items' = files
    /\ UNCHANGED <<url_input, url_candidates, url_attempts>>
    /\ UNCHANGED <<names_vars, rerun_vars, bep_vars, startup_vars, scan_vars>>
    /\ UNCHANGED <<client_vars, folder_vars, excel_vars, auth_vars, session, now, requests>>
    /\ UNCHANGED <<excel_rows, project, apply_pc, idx, updated, skipped, log, calls, errors>>

\* lines 1414-1419: ui_fail reports the failure
FolderLoadFailed ==
    /\ url_pc = "ui_fail"
    /\ url_pc' = "failed"
    /\ UNCHANGED <<url_input, url_candidates, url_attempts>>
    /\ UNCHANGED <<names_vars, rerun_vars, bep_vars, startup_vars, scan_vars>>
    /\ UNCHANGED <<client_vars, folder_vars, excel_vars>>
    /\ UNCHANGED <<pass_vars, auth_vars, session, now, requests>>

InitUrl ==
    /\ InitPassIdle
    /\ InitWindow
    /\ InitClientIdle
    /\ InitFoldersIdle
    /\ InitExcelIdle
    /\ InitNamesIdle
    /\ InitRerunIdle
    /\ InitStartupOver
    /\ InitScanIdle
    /\ InitBepIdle
    /\ session = Session("t1", "r1", 3600)
    /\ now = 0
    /\ requests = <<>>
    /\ url_input \in [project_id : UrlProjectIds, selected : SelectedProjects]
    /\ url_pc = "idle"
    /\ url_candidates = <<>>
    /\ url_attempts = <<>>

NextUrl == OnLoadFolderUrl \/ WorkerTry \/ UiOk \/ FolderLoadFailed

SpecUrl == InitUrl /\ [][NextUrl]_vars

(***************************************************************************)
(* on_apply_descriptions invoked a second time on the same inputs          *)
(***************************************************************************)
\* the button is clicked again after a pass: the counters are local to the
\* invocation, the log lines and calls of the second pass are kept apart from
\* those of the first; the file list is the one the first pass left
ApplyAgain ==
    /\ apply_pc = "done"
    /\ run = 1
    /\ run' = 2
    /\ first_run' = PassResult(log, calls, errors, updated, skipped)
    /\ apply_pc' = "idle"
    /\ idx' = 0
    /\ log' = <<>>
    /\ calls' = <<>>
    /\ errors' = <<>>
    /\ requests' = <<>>
    /\ UNCHANGED <<file_items, excel_rows, project, session, now, updated, skipped, replay>>
    /\ UNCHANGED <<auth_vars, client_vars, folder_vars, excel_vars, names_vars, url_vars,
                   startup_vars, scan_vars, bep_vars>>

\* a pass over a file list, with the index of the three rows "p.d", "P.x", "b a"
InitRerun ==
    /\ file_items \in SeqsUpTo(ItemChoices, MaxItems)
    /\ excel_rows = BuildIndex(EmptyIndex, <<ExcelRow(<<"p", ".", "d">>, ""),
                                             ExcelRow(<<"P", ".", "x">>, "d2"),
                                             ExcelRow(<<"b", " ", "a">>, "d3")>>)
    /\ project \in {None, "b.p1"}
    /\ session \in SessionChoices
    /\ now = 0
    /\ apply_pc = "idle"
    /\ idx = 0
    /\ updated = 0
    /\ skipped = 0
    /\ log = <<>>
    /\ calls = <<>>
    /\ requests = <<>>
    /\ errors = <<>>
    /\ InitWindow
    /\ InitExt

NextRerun == ApplyRejected \/ ApplyStart \/ ApplyItem \/ ApplyFinish \/ ApplyAgain

SpecRerun == InitRerun /\ [][NextRerun]_vars

(***************************************************************************)
(* on_apply_descriptions on the UI thread while a background worker calls  *)
(* the data client                                                         *)
(***************************************************************************)
\* the UI thread inside a call of the data client made by the pass
InCall(op) == [IdleThread EXCEPT !.pc = "wait", !.op = op, !.page = 1]

\* line 1511: the loop calls get_item_detail for an item the first skips let pass
PassFetchSent ==
    /\ apply_pc = "running"
    /\ idx <= Len(file_items)
    /\ threads["ui"].pc = "idle"
    /\ PreFetchSkip(file_items[idx], LookupRow(excel_rows, file_items[idx].DisplayName)) = None
    /\ threads' = [threads EXCEPT !["ui"] = InCall(GetItemDetailOp)]
    /\ UNCHANGED <<pass_vars, session, now, requests, auth_vars, client_env,
                   folder_vars, excel_vars, more_vars>>

\* line 1544: get_item_detail is over and the loop calls update_version_description
PassUpdateSent ==
    /\ threads["ui"] = InCall(GetItemDetailOp)
    /\ file_items[idx].ExtensionType # C4RModel
    /\ threads' = [threads EXCEPT !["ui"] = InCall(UpdateVersionDescriptionOp)]
    /\ UNCHANGED <<pass_vars, session, now, requests, auth_vars, client_env,
                   folder_vars, excel_vars, more_vars>>

\* the iteration ends: the call the UI thread is in returns or raises and the
\* outcome of the item is written; the iteration made the call of
\* update_version_description exactly if the UI thread is in it
PassItemDecided ==
    /\ ApplyItemBody
    /\ IF Len(calls') = Len(calls) THEN threads["ui"].pc = "idle"
       ELSE IF Len(calls') = Len(calls) + 1 THEN threads["ui"] = InCall(GetItemDetailOp)
       ELSE threads["ui"] = InCall(UpdateVersionDescriptionOp)
    /\ threads' = [threads EXCEPT !["ui"] = IdleThread]

\* a pass over two items at most (a plain file, a C4RModel, a file whose row
\* has no description), a worker free to call the data client
InitPassWorker ==
    /\ file_items \in SeqsUpTo({ FileItem("i1", <<"P", ".", "x">>, "", PlainFile),
                                FileItem("i1", <<"P", ".", "x">>, "", C4RModel),
                                FileItem("i1", <<"B", " ", "a">>, "", PlainFile) }, 2)
    /\ excel_rows = BuildIndex(EmptyIndex, <<ExcelRow(<<"P", ".", "x">>, "d2"),
                                             ExcelRow(<<"b", " ", "a">>, "")>>)
    /\ project = "b.p1"
    /\ session \in SessionChoices
    /\ now = 0
    /\ apply_pc = "idle"
    /\ idx = 0
    /\ updated = 0
    /\ skipped = 0
    /\ log = <<>>
    /\ calls = <<>>
    /\ requests = <<>>
    /\ errors = <<>>
    /\ InitWindow
    /\ threads = [th \in ThreadIds |-> IdleThread]
    /\ session_origin = NoOrigin
    /\ listing_pages = 1
    /\ InitFoldersIdle
    /\ InitExcelIdle
    /\ InitMoreIdle

NextPassWorker ==
    \/ ApplyStart
    \/ PassFetchSent
    \/ PassUpdateSent
    \/ PassItemDecided
    \/ ApplyFinish
    \/ ThreadStep("worker")

SpecPassWorker == InitPassWorker /\ [][NextPassWorker]_vars

(***************************************************************************)
(* The handlers of the folder tree as the UI thread runs them: a request   *)
(* waits in the queue of the dispatcher until the handler before it has    *)
(* returned, a handler stays in its call of the data client until the      *)
(* service answers                                                         *)
(***************************************************************************)
MaxQueued == 2

\* a request made to the tree: "load_top_folders", "expanded" or "double_click"
TreeEvent(event, node) == [event |-> event, node |-> node]

\* a handler inside a call of the data client
Handler(event, node, call) == [event |-> event, node |-> node, call |-> call]

\* the requests the user can make on the tree as it is shown
TreeEvents ==
    {TreeEvent("load_top_folders", None)} \cup
    { TreeEvent("expanded", id) : id \in { n \in FolderIds : ~nodes[n].gone } } \cup
    { TreeEvent("double_click", id) : id \in Range(folder_nodes) \cap FolderIds }

\* a handler is entered while another one is inside its call
UiThreadReentrant(stack) == TRUE

\* the handlers run on the UI thread and their calls block it: the next
\* handler is entered when no handler is running
UiThreadFree(stack) == stack = <<>>

\* the user clicks, whether or not a handler is running
RequestPosted ==
    /\ folder_events + Len(ui_queue) + Len(ui_stack) < MaxFolderEvents
    /\ Len(ui_queue) < MaxQueued
    /\ \E e \in TreeEvents : ui_queue' = Append(ui_queue, e)
    /\ UNCHANGED <<nodes, folder_nodes, folder_nav_stack, generation, child_listings,
                   folder_events, last_folder_event, ui_stack>>
    /\ UNCHANGED <<client_vars, excel_vars, more_vars, pass_vars, auth_vars, session, now, requests>>

\* lines 1314-1321: the subfolders of a loaded node are shown in place of the level
ShowChildren(ns, id) ==
    LET children == RealChildren(ns[id])
    IN  IF ns[id].IsLoaded /\ children # <<>>
        THEN /\ folder_nav_stack' = Append(folder_nav_stack, folder_nodes)
             /\ folder_nodes' = <<UpLevel>> \o children
        ELSE UNCHANGED <<folder_nodes, folder_nav_stack>>

\* the handler returned: the request is counted
Handled(event, node, was_loaded) ==
    /\ folder_events' = folder_events + 1
    /\ last_folder_event' = FolderEvent(event, node, was_loaded)

\* the dispatcher hands the next request to its handler, which returns at
\* once or enters a call of the data client: lines 1172-1178 of
\* load_top_folders, 1206-1219 of on_folder_expanded, 1265-1296 of
\* on_folder_double_click
HandlerBegins ==
    /\ UiThreadFree(ui_stack)
    /\ ui_queue # <<>>
    /\ ui_queue' = Tail(ui_queue)
    /\ LET e == Head(ui_queue)
       IN  IF e.event = "load_top_folders"
           THEN /\ folder_nodes' = <<>>
                /\ folder_nav_stack' = <<>>
                /\ ui_stack' = Append(ui_stack, Handler(e.event, None, "get_top_folders"))
                /\ UNCHANGED <<nodes, child_listings, folder_events, last_folder_event>>
           ELSE IF nodes[e.node].gone \/ (e.event = "double_click" /\ e.node \notin Range(folder_nodes))
           THEN /\ Handled(e.event, e.node, FALSE)
                /\ UNCHANGED <<nodes, child_listings, folder_nodes, folder_nav_stack, ui_stack>>
           ELSE IF AlreadyLoaded(nodes[e.node])
           THEN /\ Handled(e.event, e.node, TRUE)
                /\ IF e.event = "double_click" THEN ShowChildren(nodes, e.node)
                   ELSE UNCHANGED <<folder_nodes, folder_nav_stack>>
                /\ UNCHANGED <<nodes, child_listings, ui_stack>>
           ELSE /\ nodes' = IF e.event = "expanded"
                            THEN [nodes EXCEPT ![e.node].IsLoading = TRUE]
                            ELSE nodes
                /\ child_listings' = [child_listings EXCEPT ![e.node] = @ + 1]
                /\ ui_stack' = Append(ui_stack, Handler(e.event, e.node, "get_folder_children"))
                /\ UNCHANGED <<folder_nodes, folder_nav_stack, folder_events, last_folder_event>>
    /\ UNCHANGED generation
    /\ UNCHANGED <<client_vars, excel_vars, more_vars, pass_vars, auth_vars, session, now, requests>>

\* lines 1178-1200: get_top_folders raises, or returns the top folders, which
\* are shown, and the folder "Project Files" is expanded
TopFoldersAnswered ==
    /\ ui_stack # <<>>
    /\ ui_stack[Len(ui_stack)].call = "get_top_folders"
    /\ generation' = generation + 1
    /\ \E top \in ChildListingOutcomes :
        IF top = "raised"
        THEN /\ nodes' = [n \in FolderIds |-> NoNode]
             /\ child_listings' = [n \in FolderIds |-> 0]
             /\ ui_stack' = SubSeq(ui_stack, 1, Len(ui_stack) - 1)
             /\ Handled("load_top_folders", None, FALSE)
             /\ UNCHANGED folder_nodes
        ELSE /\ folder_nodes' = TopFolderIds
             /\ nodes' = [n \in FolderIds |-> IF n \in Range(TopFolderIds) THEN NewNode ELSE NoNode]
             /\ child_listings' = [n \in FolderIds |-> IF n = ProjectFilesId THEN 1 ELSE 0]
             /\ ui_stack' = [ui_stack EXCEPT ![Len(ui_stack)] =
                               Handler("load_top_folders", ProjectFilesId, "get_folder_children")]
             /\ UNCHANGED <<folder_events, last_folder_event>>
    /\ UNCHANGED <<folder_nav_stack, ui_queue>>
    /\ UNCHANGED <<client_vars, excel_vars, more_vars, pass_vars, auth_vars, session, now, requests>>

\* lines 1230-1235 and what follows them in the handler: get_folder_children
\* raises or returns, the handler ends
ListingAnswered ==
    /\ ui_stack # <<>>
    /\ ui_stack[Len(ui_stack)].call = "get_folder_children"
    /\ LET h == ui_stack[Len(ui_stack)]
       IN  \E outcome \in ChildListingOutcomes :
             LET listed == IF outcome = "returned" THEN ExpandedNodes(nodes, h.node) ELSE nodes
                 after  == IF h.event = "expanded"
                           THEN [listed EXCEPT ![h.node].IsLoading = FALSE]
                           ELSE listed
             IN  /\ nodes' = after
                 /\ IF h.event = "double_click" THEN ShowChildren(after, h.node)
                    ELSE UNCHANGED <<folder_nodes, folder_nav_stack>>
                 /\ Handled(h.event, h.node, FALSE)
    /\ ui_stack' = SubSeq(ui_stack, 1, Len(ui_stack) - 1)
    /\ UNCHANGED <<generation, child_listings, ui_queue>>
    /\ UNCHANGED <<client_vars, excel_vars, more_vars, pass_vars, auth_vars, session, now, requests>>

NextTree == RequestPosted \/ HandlerBegins \/ TopFoldersAnswered \/ ListingAnswered

SpecTree == InitFolders /\ [][NextTree]_vars

(***************************************************************************)
(* The start of the window: _restore_cached_session, _load_hubs_async      *)
(***************************************************************************)
\* the clock readings at which the window is opened, in thirds of a tick
MaxStartSteps == 6

StartTimes == { k * (TickSeconds \div 3) : k \in 0..MaxStartSteps }

\* the settings a window can find: nothing, or the token and expiry of an
\* earlier sign-in
CacheChoices ==
    { NoCache } \cup { CacheOf(FromJson(r, 0)) : r \in ClientExchangeResponses }

\* a restore that looks at the expiry alone
StillValidNoSafety(expires_at, t) == expires_at > t

\* line 944: the cached expiry lies beyond the safety margin
StillValid(expires_at, t) == ~(expires_at <= t + SafetyMarginSeconds)

\* lines 931-978: _restore_cached_session at the end of __init__; the worker of
\* _load_hubs_async is started when a session was installed
RestoreCachedSession ==
    /\ startup_pc = "constructed"
    /\ IF ~Truthy(cache.acc_token) \/ cache.acc_token_expires = 0
       THEN /\ startup_pc' = "unauthenticated"
            /\ UNCHANGED <<session, cache, status_text, threads, session_origin>>
       ELSE IF ~StillValid(cache.acc_token_expires, now)
       THEN /\ cache' = NoCache
            /\ startup_pc' = "unauthenticated"
            /\ UNCHANGED <<session, status_text, threads, session_origin>>
       ELSE /\ session' = Session(cache.acc_token, "", cache.acc_token_expires)
            /\ session_origin' = Origin("cached", TokenError)
            /\ status_text' = "Signed in (cached)"
            /\ threads' = [threads EXCEPT !["worker"] = IdleThread]
            /\ startup_pc' = "loading"
            /\ UNCHANGED cache
    /\ UNCHANGED <<pass_vars, now, requests, auth_in_progress, login_enabled, workers,
                   port_owner, sign_ins, listing_pages, folder_vars, excel_vars, names_vars,
                   url_vars, rerun_vars, bep_vars, scan_vars>>

\* time passes before the worker of _load_hubs_async gets to its call
StartupTick ==
    /\ startup_pc = "loading"
    /\ now < MaxClientTicks * TickSeconds
    /\ now' = now + TickSeconds
    /\ UNCHANGED <<pass_vars, session, requests, auth_vars, ext_vars>>

\* lines 981-997: the worker calls get_hubs, then ui_success or ui_fail sets
\* the status line
LoadHubs ==
    /\ startup_pc = "loading"
    /\ \E tokResp \in TokenResponses, httpResp \in HubResponses :
        LET r == Get(session, now, "hubs", None, None, tokResp, httpResp)
        IN  /\ session' = r.session
            /\ requests' = requests \o r.sent
            /\ threads' = [threads EXCEPT !["worker"] =
                              [@ EXCEPT !.pc = IF r.raised THEN "raised" ELSE "returned",
                                        !.err = r.err]]
            /\ status_text' = IF r.raised THEN "Hub load failed" ELSE "Hubs loaded"
            /\ startup_pc' = IF r.raised THEN "hub load failed" ELSE "hubs loaded"
    /\ UNCHANGED <<pass_vars, now, auth_in_progress, login_enabled, workers, port_owner,
                   sign_ins, cache, session_origin, listing_pages, folder_vars, excel_vars,
                   names_vars, url_vars, rerun_vars, bep_vars, scan_vars>>

\* lines 836-840: the window under construction, with the settings it finds
InitStartup ==
    /\ InitPassIdle
    /\ session = NoSession
    /\ now \in StartTimes
    /\ requests = <<>>
    /\ auth_in_progress = FALSE
    /\ login_enabled = TRUE
    /\ status_text = ""
    /\ workers = [w \in WorkerIds |-> NoWorker]
    /\ port_owner = 0
    /\ sign_ins = <<>>
    /\ cache \in CacheChoices
    /\ threads = [th \in ThreadIds |-> NoThread]
    /\ session_origin = NoOrigin
    /\ listing_pages = 1
    /\ InitFoldersIdle
    /\ InitExcelIdle
    /\ InitNamesIdle
    /\ InitUrlIdle
    /\ InitRerunIdle
    /\ InitScanIdle
    /\ InitBepIdle
    /\ startup_pc = "constructed"

NextStartup == RestoreCachedSession \/ StartupTick \/ LoadHubs

SpecStartup == InitStartup /\ [][NextStartup]_vars

(***************************************************************************)
(* A reconciliation pass on a file list loaded by folder URL               *)
(***************************************************************************)
\* the UI thread is not inside on_apply_descriptions
UiThreadIdle == apply_pc # "running"

\* lines 1162-1175: another project is selected in the list; load_top_folders
\* empties the file list (the listing of the top folders is not followed here)
OnProjectChanged ==
    /\ project # None
    /\ \E selected \in SelectedProjects \ {None, project} : project' = selected
    /\ file_items' = <<>>
    /\ UNCHANGED <<excel_rows, apply_pc, idx, updated, skipped, log, calls, errors>>
    /\ UNCHANGED <<session, now, requests, auth_vars, ext_vars>>

\* the window is signed in, a spreadsheet is loaded, the list is empty and a
\* folder URL was pasted; project is the selection of project_combo
InitUrlPass ==
    /\ file_items = <<>>
    /\ excel_rows = BuildIndex(EmptyIndex, <<ExcelRow(<<"p", ".", "d">>, ""),
                                             ExcelRow(<<"P", ".", "x">>, "d2"),
                                             ExcelRow(<<"b", " ", "a">>, "d3")>>)
    /\ apply_pc = "idle"
    /\ idx = 0
    /\ updated = 0
    /\ skipped = 0
    /\ log = <<>>
    /\ calls = <<>>
    /\ errors = <<>>
    /\ InitWindow
    /\ InitClientIdle
    /\ InitFoldersIdle
    /\ InitExcelIdle
    /\ InitNamesIdle
    /\ InitRerunIdle
    /\ InitStartupOver
    /\ InitScanIdle
    /\ InitBepIdle
    /\ session = Session("t1", "r1", 3600)
    /\ now = 0
    /\ requests = <<>>
    /\ url_input \in [project_id : UrlProjectIds, selected : SelectedProjects]
    /\ project = url_input.selected
    /\ url_pc = "idle"
    /\ url_candidates = <<>>
    /\ url_attempts = <<>>

\* the handlers of the UI thread run one at a time; the worker of the folder
\* URL runs beside them
NextUrlPass ==
    \/ UiThreadIdle /\ OnLoadFolderUrl
    \/ WorkerTry
    \/ UiThreadIdle /\ UiOk
    \/ UiThreadIdle /\ FolderLoadFailed
    \/ UiThreadIdle /\ OnProjectChanged
    \/ ApplyRejected
    \/ ApplyStart
    \/ ApplyItem
    \/ ApplyFinish

SpecUrlPass == InitUrlPass /\ [][NextUrlPass]_vars

(***************************************************************************)
(* The sign-in under fair scheduling                                       *)
(***************************************************************************)
\* the steps of attempt w that do not wait for the user: the worker thread
\* runs, the clock advances, WaitOne and the HTTP requests return within their
\* timeouts, the dispatcher runs the callbacks handed to Invoke; the arrival
\* of the callback from the browser is left to the user
AttemptStep(w) ==
    \/ ListenerStart(w)
    \/ LaunchBrowser(w)
    \/ Tick(w)
    \/ WaitTimesOut(w)
    \/ ExchangeAnswered(w)
    \/ ListHubs(w)
    \/ UiSuccess(w)
    \/ UiFail(w)

\* the clicks on the sign-in button that are followed to their end
MaxLiveSignIns == 1

NextAuthLive ==
    \/ Len(sign_ins) < MaxLiveSignIns /\ OnSignIn
    \/ \E w \in WorkerIds : AttemptStep(w) \/ CallbackArrives(w)

SpecAuthLive ==
    InitAuth /\ [][NextAuthLive]_vars /\ \A w \in WorkerIds : WF_vars(AttemptStep(w))

(***************************************************************************)
(* ExcelReader.read_excel, sheet by sheet: the COM objects it holds        *)
(***************************************************************************)
\* where the reading of an unreadable sheet raises: at Worksheets.Item, at
\* UsedRange or at Value2
FailurePoints == {"Item", "UsedRange", "Value2"}

\* the sheets of the workbooks followed sheet by sheet: one that cannot be
\* read, one with empty bounds, one with nothing counted, one read through the
\* Text property alone, one with a name and a description
ScanSheetChoices ==
    { Sheet("unreadable", 2, PlainHeaders,
            <<DataRow(NameCellA, DescCellB, EmptyCellB), DataRow(NameCellA, DescCellB, EmptyCellB)>>),
      Sheet("no_range", 2, PlainHeaders,
            <<DataRow(NameCellA, DescCellB, EmptyCellB), DataRow(NameCellA, DescCellB, EmptyCellB)>>),
      Sheet("grid", 2, PlainHeaders, <<DataRow(EmptyCellA, EmptyCellB, EmptyCellB)>>),
      Sheet("grid", 2, PlainHeaders, <<DataRow(TextOnlyCellA, TextOnlyCellB, EmptyCellB)>>),
      Sheet("grid", 2, PlainHeaders,
            <<DataRow(NameCellA, DescCellB, EmptyCellB), DataRow(TextOnlyCellA, EmptyCellB, EmptyCellB)>>) }

\* lines 199-232: Excel is started, the workbook opened, best set to nothing
BeginRead ==
    /\ excel_status = "none"
    /\ scan_pc = "idle"
    /\ workbook.opens
    /\ scan_pc' = "scanning"
    /\ scan_k' = 1
    /\ UNCHANGED <<ws_local, rng_local, best_sheet, released_ws, released_rng, text_reads>>
    /\ UNCHANGED <<excel_vars, names_vars, url_vars, rerun_vars, bep_vars, startup_vars>>
    /\ UNCHANGED <<pass_vars, session, now, requests, auth_vars, client_vars, folder_vars>>

\* lines 317-322: the except clause of the loop releases what the locals rng
\* and ws hold; an unbound rng raises before ws is released
ReleasedByExcept(held_ws, held_rng) ==
    IF held_rng = 0 THEN [ws |-> {}, rng |-> {}]
    ELSE [ws |-> {held_ws} \ {0}, rng |-> {held_rng}]

\* lines 247-322: one iteration of the loop over the sheets
ScanSheet ==
    /\ scan_pc = "scanning"
    /\ scan_k <= Len(workbook.sheets)
    /\ LET sheet == workbook.sheets[scan_k]
       IN  IF sheet.kind = "unreadable"
           THEN \E point \in FailurePoints :
                   LET held_ws  == IF point = "Item" THEN ws_local ELSE scan_k
                       held_rng == IF point = "Value2" THEN scan_k ELSE rng_local
                       gone     == ReleasedByExcept(held_ws, held_rng)
                   IN  /\ ws_local' = held_ws
                       /\ rng_local' = held_rng
                       /\ released_ws' = released_ws \cup gone.ws
                       /\ released_rng' = released_rng \cup gone.rng
                       /\ UNCHANGED best_sheet
           ELSE /\ ws_local' = scan_k
                /\ rng_local' = scan_k
                /\ IF sheet.kind = "grid" /\ Pick(Score(sheet), best_sheet)
                   THEN /\ best_sheet' = Best(scan_k, Score(sheet).rows, Score(sheet).desc_rows)
                        /\ released_ws' = released_ws \cup ({best_sheet.sheet} \ {0})
                        /\ released_rng' = released_rng \cup ({best_sheet.sheet} \ {0})
                   ELSE /\ released_ws' = released_ws \cup {scan_k}
                        /\ released_rng' = released_rng \cup {scan_k}
                        /\ UNCHANGED best_sheet
    /\ scan_k' = scan_k + 1
    /\ UNCHANGED <<scan_pc, text_reads>>
    /\ UNCHANGED <<excel_vars, names_vars, url_vars, rerun_vars, bep_vars, startup_vars>>
    /\ UNCHANGED <<pass_vars, session, now, requests, auth_vars, client_vars, folder_vars>>

\* lines 233-245: Cells(r, c).Text on a released Worksheet object raises and
\* safe_get_sheet_text returns None
TextLost(row) ==
    DataRow(Cell(row.a.value, NoneText), Cell(row.b.value, None), Cell(row.c.value, None))

\* the rows of a sheet as read_excel sees them through its Worksheet object
RowsSeen(sheet, live) ==
    IF live THEN sheet.rows ELSE [k \in 1..Len(sheet.rows) |-> TextLost(sheet.rows[k])]

\* lines 385-398: the reads of the Text property the loop over the rows makes
RECURSIVE TextReads(_, _)
TextReads(sheet, rows) ==
    IF rows = <<>> THEN 0
    ELSE LET row    == Head(rows)
             for_a  == row.a.value = NoneText \/ StripText(row.a.value) = <<>>
             for_b  == /\ FileNameOf(row.a) # <<>>
                       /\ DescriptionIndex(sheet) >= 1
                       /\ (row.b.value = None \/ StripDesc(row.b.value) = "")
         IN  (IF for_a THEN 1 ELSE 0) + (IF for_b THEN 1 ELSE 0) + TextReads(sheet, Tail(rows))

\* the Worksheet object of the selected sheet can still be used
SheetLive == best_sheet.sheet \notin released_ws

\* lines 324-419: the loop is over; the rows of the selected sheet are read
BuildRows ==
    /\ scan_pc = "scanning"
    /\ scan_k > Len(workbook.sheets)
    /\ scan_pc' = "built"
    /\ text_reads' =
          IF best_sheet.sheet = 0 THEN text_reads
          ELSE LET sheet == workbook.sheets[best_sheet.sheet]
                   n     == TextReads(sheet, RowsSeen(sheet, SheetLive))
               IN  IF SheetLive THEN [live |-> n, dead |-> 0] ELSE [live |-> 0, dead |-> n]
    /\ UNCHANGED <<scan_k, ws_local, rng_local, best_sheet, released_ws, released_rng>>
    /\ UNCHANGED <<excel_vars, names_vars, url_vars, rerun_vars, bep_vars, startup_vars>>
    /\ UNCHANGED <<pass_vars, session, now, requests, auth_vars, client_vars, folder_vars>>

\* lines 420-431 and 1425-1451: the finally clause releases the objects of the
\* selected sheet, on_browse_excel keeps the rows and the diagnostics
Cleanup ==
    /\ scan_pc = "built"
    /\ scan_pc' = "closed"
    /\ released_ws' = released_ws \cup ({best_sheet.sheet} \ {0})
    /\ released_rng' = released_rng \cup ({best_sheet.sheet} \ {0})
    /\ IF best_sheet.sheet = 0
       THEN /\ excel_rows' = EmptyIndex
            /\ excel_diag' = NoDiagnostics
       ELSE LET sheet == workbook.sheets[best_sheet.sheet]
                rows  == AcceptedRows(sheet, RowsSeen(sheet, SheetLive))
            IN  /\ excel_rows' = BuildIndex(EmptyIndex, rows)
                /\ excel_diag' = Diagnostics(best_sheet.sheet, best_sheet.rows,
                                             best_sheet.desc_rows, Len(rows),
                                             Len(sheet.rows) + 1, sheet.cols, HeaderKeys(sheet))
    /\ excel_status' = "loaded"
    /\ UNCHANGED <<scan_k, ws_local, rng_local, best_sheet, text_reads, workbook>>
    /\ UNCHANGED <<names_vars, url_vars, rerun_vars, bep_vars, startup_vars>>
    /\ UNCHANGED <<file_items, project, apply_pc, idx, updated, skipped, log, calls, errors>>
    /\ UNCHANGED <<session, now, requests, auth_vars, client_vars, folder_vars>>

InitHandles ==
    /\ InitPassIdle
    /\ InitWindow
    /\ InitClientIdle
    /\ InitFoldersIdle
    /\ session = NoSession
    /\ now = 0
    /\ requests = <<>>
    /\ InitMoreIdle
    /\ workbook \in { Workbook(TRUE, sh) :
                        sh \in UNION { [1..k -> ScanSheetChoices] : k \in 1..MaxSheets } }
    /\ excel_status = "none"
    /\ excel_diag = NoDiagnostics

NextHandles == BeginRead \/ ScanSheet \/ BuildRows \/ Cleanup

SpecHandles == InitHandles /\ [][NextHandles]_vars

(***************************************************************************)
(* build_session_block of the BEP engine (bep_engine.py)                   *)
(***************************************************************************)
MaxSessions == 2

\* a key the JSON object does not have
Absent == "<absent>"

\* the JSON values of Keep and StartFresh: true, false, null, 0, 1, the empty
\* string, a string that spells a refusal
JsonValues == {"true", "false", "null", "0", "1", "''", "'no'"}

\* every value given counts
IsTruthyWhenGiven(v) == v # Absent

\* the truth of s.get("Keep") and of start_fresh in Python: None (also for an
\* absent key), False, 0 and the empty string are false
IsTruthy(v) == v \notin {Absent, "null", "false", "0", "''"}

\* a clash session of the payload
ClashSession(name, pair, keep) == [Name |-> name, DisciplinePair |-> pair, Keep |-> keep]

ClashSessionChoices ==
    { ClashSession(n, d, k) : n \in {"S1", Absent}, d \in {"A-S", Absent},
                              k \in {"true", "false", "null", "'no'", Absent} }

\* a line of the block: a fixed text, or the entry of a session
BlockLine(text, name, pair) == [text |-> text, name |-> name, pair |-> pair]

FixedLine(text) == BlockLine(text, "", "")

\* line 28: "  - {Name} ({DisciplinePair})" with the defaults of get
SessionLine(s) ==
    BlockLine("  - ", IF s.Name = Absent THEN "Unnamed" ELSE s.Name,
              IF s.DisciplinePair = Absent THEN "Unassigned" ELSE s.DisciplinePair)

\* line 18: [s for s in sessions if s.get("Keep")]
RECURSIVE Kept(_)
Kept(sessions) ==
    IF sessions = <<>> THEN <<>>
    ELSE (IF IsTruthy(Head(sessions).Keep) THEN <<Head(sessions)>> ELSE <<>>)
         \o Kept(Tail(sessions))

\* lines 10-29: the lines of the text returned
build_session_block(sessions, start_fresh) ==
    IF IsTruthy(start_fresh)
    THEN <<FixedLine("### Clash Session Strategy"),
           FixedLine("- Current cycle starts fresh"),
           FixedLine("- Regeneration allowed")>>
    ELSE LET kept == Kept(sessions)
         IN  IF kept = <<>>
             THEN <<FixedLine("### Clash Session Strategy"),
                    FixedLine("- No sessions marked to keep."),
                    FixedLine("- Use Generate Back Missing Sessions")>>
             ELSE <<FixedLine("### Clash Session Strategy"), FixedLine("- Keep sessions:")>>
                  \o [k \in 1..Len(kept) |-> SessionLine(kept[k])]

\* line 71: main calls build_session_block on the Sessions and StartFresh of
\* the payload
BuildSessionBlock ==
    /\ bep_block = <<>>
    /\ bep_block' = build_session_block(bep_sessions, bep_start_fresh)
    /\ UNCHANGED <<bep_sessions, bep_start_fresh>>
    /\ UNCHANGED <<names_vars, url_vars, rerun_vars, startup_vars, scan_vars>>
    /\ UNCHANGED <<pass_vars, session, now, requests, auth_vars>>
    /\ UNCHANGED <<client_vars, folder_vars, excel_vars>>

InitBep ==
    /\ InitPassIdle
    /\ InitWindow
    /\ InitClientIdle
    /\ InitFoldersIdle
    /\ InitExcelIdle
    /\ InitNamesIdle
    /\ InitUrlIdle
    /\ InitRerunIdle
    /\ InitStartupOver
    /\ InitScanIdle
    /\ session = NoSession
    /\ now = 0
    /\ requests = <<>>
    /\ bep_sessions \in SeqsUpTo(ClashSessionChoices, MaxSessions)
    /\ bep_start_fresh \in JsonValues
    /\ bep_block = <<>>

NextBep == BuildSessionBlock

SpecBep == InitBep /\ [][NextBep]_vars

(***************************************************************************)
(* Properties of the reconciliation pass (SpecRecon)                       *)
(***************************************************************************)
SkipTexts ==
    {"Skipped (missing item id)", "Skipped (no Excel row)", "Skipped (empty description)",
     "Skipped (C4RModel not supported)", "Skipped (missing tip version id)"}

UpdateTexts == {"Updated", "Failed to update"}

IsOutcomeOf(l, i) == l.item = i /\ l.line \in SkipTexts \cup UpdateTexts

\* the outcome lines the log holds for item i
OutcomesOfItem(i) == SelectSeq(log, LAMBDA l : IsOutcomeOf(l, i))

\* the items the loop is done with
Processed == { i \in 1..Len(file_items) : i < idx }

\* the tip the item detail of item i yielded (printed by the pre-update line)
TipFetchedFor(i) ==
    LET ls == SelectSeq(log, LAMBDA l : l.item = i /\ l.line = "Pre-update item")
    IN  IF ls = <<>> THEN None ELSE ls[1].value

FullKeyOf(i) == NormalizeName(file_items[i].DisplayName)

BaseKeyOf(i) == NormalizeBase(file_items[i].DisplayName)

MatchedRow(i) ==
    IF FullKeyOf(i) \in DOMAIN excel_rows THEN excel_rows[FullKeyOf(i)]
    ELSE excel_rows[BaseKeyOf(i)]

\* the outcome the ordered rules give item i
RuledOutcome(i) ==
    IF file_items[i].Id \in {None, ""} THEN {"Skipped (missing item id)"}
    ELSE IF FullKeyOf(i) \notin DOMAIN excel_rows /\ BaseKeyOf(i) \notin DOMAIN excel_rows
         THEN {"Skipped (no Excel row)"}
    ELSE IF MatchedRow(i).Description \in {None, ""} THEN {"Skipped (empty description)"}
    ELSE IF file_items[i].ExtensionType = C4RModel THEN {"Skipped (C4RModel not supported)"}
    ELSE IF TipFetchedFor(i) \in {None, ""} THEN {"Skipped (missing tip version id)"}
    ELSE UpdateTexts

\* C1: every item the pass has processed has exactly one outcome, the one of
\* the first applicable rule in the order MissingId, NoMatchingRow (full key
\* tried before the base key), EmptyDescription, UnsupportedType, MissingTip,
\* and otherwise an attempted update.
C1_FirstApplicableRule ==
    \A i \in Processed :
        /\ Len(OutcomesOfItem(i)) = 1
        /\ OutcomesOfItem(i)[1].line \in RuledOutcome(i)

\* a collaborative-model item whose detail gave no tip is skipped for its type,
\* next to an item skipped for its missing tip
C1_Witness ==
    /\ apply_pc = "done"
    /\ \E i, j \in Processed :
        /\ file_items[i].ExtensionType = C4RModel
        /\ TipFetchedFor(i) = None
        /\ OutcomesOfItem(i)[1].line = "Skipped (C4RModel not supported)"
        /\ OutcomesOfItem(j)[1].line = "Skipped (missing tip version id)"

UpdateCallsOf(i) ==
    SelectSeq(calls, LAMBDA c : c.op = "update_version_description" /\ c.item = i)

\* C2: an item that passes every skip check has exactly one
\* update_version_description call, for the selected project, its resolved tip
\* and the matched row's description; a skipped item has none.
C2_OneUpdatePerPassingItem ==
    \A i \in Processed :
        IF RuledOutcome(i) = UpdateTexts
        THEN /\ Len(UpdateCallsOf(i)) = 1
             /\ UpdateCallsOf(i)[1].project = project
             /\ UpdateCallsOf(i)[1].id = TipFetchedFor(i)
             /\ UpdateCallsOf(i)[1].description = MatchedRow(i).Description
        ELSE UpdateCallsOf(i) = <<>>

\* one item updated at its tip and one item skipped in the same pass
C2_Witness ==
    /\ apply_pc = "done"
    /\ \E i, j \in Processed :
        /\ RuledOutcome(i) = UpdateTexts
        /\ UpdateCallsOf(i)[1].id = "v1"
        /\ RuledOutcome(j) # UpdateTexts
        /\ Len(calls) >= 2

ErrorLine(e) ==
    IF e.stage = "get_item_detail" THEN "Pre-update fetch failed" ELSE "Failed to update"

\* C3: an exception caught for an item is logged for that item, and the pass
\* ends only after every item of the file list has its outcome.
C3_ErrorsDoNotStopThePass ==
    /\ \A k \in 1..Len(errors) :
          \E n \in 1..Len(log) : log[n].item = errors[k].item /\ log[n].line = ErrorLine(errors[k])
    /\ apply_pc \notin {"idle", "rejected", "running"}
          => \A i \in 1..Len(file_items) : Len(OutcomesOfItem(i)) = 1

\* the update of the first item failed, the item after it was still updated
C3_Witness ==
    /\ apply_pc = "done"
    /\ Len(file_items) >= 2
    /\ \E k \in 1..Len(errors) : errors[k].item = 1 /\ errors[k].stage = "update_version_description"
    /\ OutcomesOfItem(2)[1].line = "Updated"

\* C4: at the end of the pass updated + skipped equals the number of items.
C4_CountsCoverEveryItem ==
    apply_pc = "done" => updated + skipped = Len(file_items)

(***************************************************************************)
(* Properties of the sign-in (SpecAuth)                                    *)
(***************************************************************************)
\* authenticate has returned or raised
AuthEnded(w) == workers[w].pc \in {"authenticated", "failed", "succeeded", "done"}

\* C5: a callback whose state differs from the generated state fails with
\* StateMismatch, whatever its error and code parameters are.
C5_StateValidatedFirst ==
    \A w \in WorkerIds :
        workers[w].callback.arrived /\ workers[w].callback.state # workers[w].state
            => workers[w].result = "StateMismatch"

ExchangePosts ==
    SelectSeq(requests, LAMBDA r : r.kind = "token" /\ r.body = "authorization_code")

\* C6: the code is posted to the token endpoint only after a callback with the
\* generated state, no error and a non-empty code; an attempt that ended by
\* timeout, state mismatch, provider error or missing code posted nothing and
\* has no session.
C6_ExchangeOnlyAfterValidCallback ==
    /\ Len(ExchangePosts) = Cardinality({ w \in WorkerIds : workers[w].posted_code # None })
    /\ (\A w \in WorkerIds : workers[w].posted_code = None)
          => \A n \in 1..Len(requests) : requests[n].kind # "token"
    /\ \A w \in WorkerIds :
        /\ workers[w].posted_code # None =>
              /\ workers[w].callback.arrived
              /\ workers[w].callback.state = workers[w].state
              /\ ~Truthy(workers[w].callback.error)
              /\ Truthy(workers[w].callback.code)
              /\ workers[w].posted_code = workers[w].callback.code
        /\ workers[w].result \in {"AuthTimeout", "StateMismatch", "AuthProviderError", "MissingCode"}
              => workers[w].posted_code = None /\ workers[w].session = NoSession

\* one attempt ended by a state mismatch without a post, a later one posted its code
C6_Witness ==
    \E v, w \in WorkerIds :
        /\ workers[v].result = "StateMismatch"
        /\ workers[v].callback.code = "c1"
        /\ workers[w].posted_code = "c1"
        /\ Len(ExchangePosts) = 1

\* C7: a callback with a (non-empty) error parameter fails the attempt with
\* AuthProviderError carrying that value, whatever its code parameter is.
C7_ProviderErrorFailsTheAttempt ==
    \A w \in WorkerIds :
        workers[w].callback.arrived /\ Truthy(workers[w].callback.error)
            => /\ workers[w].result = "AuthProviderError"
               /\ workers[w].err_value = workers[w].callback.error
               /\ workers[w].session = NoSession

\* error=access_denied arrived once with a code and once without
C7_Witness ==
    \E v, w \in WorkerIds :
        /\ workers[v].callback.error = "access_denied" /\ workers[v].callback.code = "c1"
        /\ workers[v].result = "AuthProviderError"
        /\ workers[w].callback.error = "access_denied" /\ workers[w].callback.code = None
        /\ workers[w].result = "AuthProviderError"

\* C8: a wait never lasts longer than the timeout, and an attempt whose wait
\* reached the timeout without a callback has failed with AuthTimeout and has
\* no session.
C8_TimeoutFailsTheAttempt ==
    \A w \in WorkerIds :
        /\ workers[w].pc = "waiting" => workers[w].elapsed <= TimeoutSeconds
        /\ AuthEnded(w) /\ ~workers[w].callback.arrived /\ workers[w].elapsed >= TimeoutSeconds
              => /\ workers[w].result = "AuthTimeout"
                 /\ workers[w].session = NoSession
                 /\ workers[w].posted_code = None
        /\ workers[w].result = "AuthTimeout"
              => ~workers[w].callback.arrived /\ workers[w].elapsed = TimeoutSeconds

\* an attempt timed out and was reported as failed
C8_Witness ==
    \E w \in WorkerIds :
        /\ workers[w].pc = "done"
        /\ workers[w].result = "AuthTimeout"
        /\ workers[w].elapsed = TimeoutSeconds
        /\ status_text = "Sign in failed"

\* C9: once authenticate has ended, on whatever path, its listener is stopped;
\* the port is held only by a running listener, and an attempt that is about
\* to start its listener finds the port free.
C9_ListenerStoppedOnEveryExit ==
    /\ \A w \in WorkerIds :
        /\ AuthEnded(w) => workers[w].listener # "listening"
        /\ workers[w].pc = "start" => port_owner = 0
        /\ workers[w].result # "ListenerStartFailed"
    /\ port_owner # 0 => workers[port_owner].listener = "listening"

\* the first attempt timed out, the second one has bound the port
C9_Witness ==
    /\ MaxAttempts >= 2
    /\ workers[1].result = "AuthTimeout"
    /\ workers[1].listener = "stopped"
    /\ workers[2].listener = "listening"
    /\ port_owner = 2

\* C10: at most one sign-in worker and one listener exist at any time, the
\* flag is set while a worker is in flight, and every worker was started by
\* an accepted sign-in.
C10_OneAttemptInFlight ==
    /\ Cardinality(InFlight) <= 1
    /\ Cardinality({ w \in WorkerIds : workers[w].listener = "listening" }) <= 1
    /\ InFlight # {} => auth_in_progress
    /\ Cardinality(Started) = Len(SelectSeq(sign_ins, LAMBDA r : r = "started"))

\* a sign-in was rejected while the first attempt waits for its callback
C10_Witness ==
    /\ sign_ins = <<"started", "rejected">>
    /\ workers[1].pc = "waiting"
    /\ Started = {1}

(***************************************************************************)
(* Properties of the data client (SpecClient, SpecThreads)                 *)
(***************************************************************************)
\* the guard of the claim: the clock has reached the expiry less two minutes
MustRefresh(g) == g.at >= g.expiry - SafetyMarginSeconds

\* the threads whose request is on the wire
Waiting == { th \in ThreadIds : threads[th].pc = "wait" }

\* C11: every request of the data client was sent after the guard(s) of its
\* method; each guard refreshed exactly when the clock had reached the expiry
\* less two minutes; the Bearer token sent is the access token the session
\* held when the guard returned
C11_GuardBeforeEveryRequest ==
    \A th \in Waiting :
        LET t == threads[th]
            s == t.sent
        IN  /\ Len(s.guards) = t.op.guards
            /\ Len(s.guards) >= 1
            /\ \A k \in 1..Len(s.guards) : s.guards[k].refreshed <=> MustRefresh(s.guards[k])
            /\ ~s.disturbed => s.request.bearer = s.guard_token
            /\ s.request.method = t.op.method

\* a PATCH sent after a guard that refreshed at the very edge of the margin
C11_Witness ==
    \E th \in Waiting :
        LET s == threads[th].sent
        IN  /\ s.request.method = "PATCH"
            /\ s.guards[1].refreshed
            /\ s.guards[1].at = s.guards[1].expiry - SafetyMarginSeconds
            /\ s.request.bearer = "n1"

\* C13: a refresh on a session without refresh token (or on no session) raises
\* NoRefreshToken and sends nothing to the token endpoint; a request to the
\* token endpoint always carries a refresh token
C13_NoRefreshTokenSendsNothing ==
    /\ \A th \in ThreadIds :
          LET t == threads[th]
          IN  /\ t.err = "NoRefreshToken" => ~Truthy(t.refresh_token_seen) /\ t.token_posts = 0
              /\ t.pc = "refresh_wait" => Truthy(t.refresh_token_seen) /\ t.token_posts = 1
              /\ (t.refresh_token_seen # None /\ ~Truthy(t.refresh_token_seen))
                    => t.pc = "raised" /\ t.err = "NoRefreshToken"
    /\ \A r \in RefreshResponses :
          LET out == Refresh(NoSession, now, r)
          IN  out.raised /\ out.err = "NoRefreshToken" /\ out.sent = <<>>

\* a call that ended in NoRefreshToken on the session restored from the cache
C13_Witness ==
    \E th \in ThreadIds :
        /\ threads[th].pc = "raised"
        /\ threads[th].err = "NoRefreshToken"
        /\ session_origin.kind = "cached"
        /\ session.AccessToken = "t4"

\* the session the claim expects from a token response read at time t
ExpectedSession(resp, t) ==
    Session(IF "access_token" \in resp.omits THEN "" ELSE resp.access_token,
            IF "refresh_token" \in resp.omits THEN "" ELSE resp.refresh_token,
            t + (IF "expires_in" \in resp.omits \/ resp.expires_in = 0
                 THEN FallbackExpirySeconds ELSE resp.expires_in))

\* C14: when a refresh has succeeded the session holds the access token, the
\* refresh token and the expiry of the response, empty for a field left out,
\* the expiry being the time of reading plus expires_in, plus 3000 seconds when
\* expires_in is left out or zero; the session built by the exchange of the
\* code follows the same rule
C14_RefreshOverwritesSession ==
    /\ \A th \in ThreadIds :
          LET t == threads[th]
          IN  (t.pc = "refreshed" /\ ~t.disturbed) => session = ExpectedSession(t.reply, t.reply_at)
    /\ (session_origin.kind = "exchange" /\ \A th \in ThreadIds : threads[th].pc \in {"none", "idle"})
          => session = ExpectedSession(session_origin.resp, 0)

\* a refresh answered, after the clock moved, without refresh_token and expires_in
C14_Witness ==
    \E th \in ThreadIds :
        /\ threads[th].pc = "refreshed"
        /\ threads[th].reply.omits = {"refresh_token", "expires_in"}
        /\ threads[th].reply_at > 0
        /\ session.RefreshToken = ""
        /\ session.ExpiresAtUtc = threads[th].reply_at + FallbackExpirySeconds

\* what the claim expects a listing to keep of a page
KeptEntries(op, entries) ==
    IF op.name = "get_files_in_folder" THEN SelectSeq(entries, IsItemEntry) ELSE entries

RECURSIVE ConcatPages(_, _, _)
ConcatPages(op, p, n) ==
    IF p > n THEN <<>>
    ELSE KeptEntries(op, PageEntries(op, p)) \o ConcatPages(op, p + 1, n)

\* C16: a listing of files or projects that returned has fetched every page of
\* the chain once, in order, has stopped on a response without next link, and
\* returns the entries of the pages in page order; while it runs no page is
\* fetched twice
C16_ListingFollowsNextLinks ==
    \A th \in ThreadIds :
        LET t == threads[th]
        IN  t.op.paged =>
              /\ \A k \in 1..Len(t.fetched) : t.fetched[k] = k
              /\ t.pc = "returned" =>
                    /\ Len(t.fetched) = listing_pages
                    /\ ~t.last_next
                    /\ t.acc = ConcatPages(t.op, 1, listing_pages)

\* a listing of files over three pages or more that returned
C16_Witness ==
    \E th \in ThreadIds :
        /\ threads[th].pc = "returned"
        /\ threads[th].op.name = "get_files_in_folder"
        /\ listing_pages >= 3
        /\ Len(threads[th].acc) = listing_pages

\* the refreshes whose request is on its way to the token endpoint
RefreshesInFlight == { th \in ThreadIds : threads[th].pc = "refresh_wait" }

\* C12: at most one refresh request is in flight for the session, and no
\* request is built from a session that another thread has only partly
\* overwritten
C12_RefreshSerialized ==
    /\ Cardinality(RefreshesInFlight) <= 1
    /\ \A th \in Waiting : ~threads[th].sent.partial

\* the errors a failed refresh raises
RefreshErrors == {"NoRefreshToken", "RefreshFailed"}

\* C15: a refresh failure raised inside the item-detail fetch of a pass is not
\* turned into a skip of the item
C15_RefreshFailureNotASkip ==
    \A k \in 1..Len(errors) :
        (errors[k].stage = "get_item_detail" /\ errors[k].err \in RefreshErrors)
            => ~\E n \in 1..Len(log) : log[n].item = errors[k].item /\ log[n].line \in SkipTexts


(***************************************************************************)
(* Properties of the folder tree (SpecFolders)                             *)
(***************************************************************************)
\* a node that is marked loaded holds the subfolders its listing returned
LoadedAfterListing ==
    \A n \in FolderIds :
        (~nodes[n].gone /\ nodes[n].IsLoaded) =>
            /\ child_listings[n] >= 1
            /\ nodes[n].Children = ServerChildren(n)

\* no request made to a loaded node lists its children or changes them
LoadedNodeLeftAlone ==
    \A n \in FolderIds :
        (~nodes[n].gone /\ nodes[n].IsLoaded /\ generation' = generation) =>
            /\ child_listings'[n] = child_listings[n]
            /\ nodes'[n] = nodes[n]

\* C17: once a folder node is marked loaded, a further expand event or double
\* click on it calls get_folder_children no more and leaves its children as
\* they are; a node is marked loaded only after its listing returned
C17_LoadedNodeIsSingleShot == []LoadedAfterListing /\ [][LoadedNodeLeftAlone]_vars

\* a loaded node was expanded or double-clicked again, and was listed once
C17_Witness ==
    /\ last_folder_event.event \in {"expanded", "double_click"}
    /\ last_folder_event.was_loaded
    /\ child_listings[last_folder_event.node] = 1
    /\ nodes[last_folder_event.node].Children = <<"C", "D">>

(***************************************************************************)
(* Properties of the spreadsheet load (SpecExcel)                          *)
(***************************************************************************)
\* the sheets of the workbook whose range was read
UsableSheets == { k \in 1..Len(workbook.sheets) : workbook.sheets[k].kind = "grid" }

\* sheet j comes before sheet k in the order desc_rows, then rows
Beats(j, k) ==
    LET sj == Score(workbook.sheets[j])
        sk == Score(workbook.sheets[k])
    IN  \/ sj.desc_rows > sk.desc_rows
        \/ sj.desc_rows = sk.desc_rows /\ sj.rows > sk.rows

\* the first of the usable sheets that no usable sheet beats
FirstBestSheet ==
    CHOOSE k \in UsableSheets :
        /\ \A j \in UsableSheets : ~Beats(j, k)
        /\ \A j \in UsableSheets : (j < k) => Beats(k, j)

\* some usable sheet has a counted row
SomeSheetCounts ==
    \E k \in UsableSheets :
        Score(workbook.sheets[k]).rows > 0 \/ Score(workbook.sheets[k]).desc_rows > 0

\* C18: among the usable sheets of which at least one has a counted row, the
\* sheet read is the one with the most desc_rows, then the most rows, then the
\* first in sheet order; when no usable sheet has a counted row no sheet is
\* read and the index is empty
C18_SheetSelection ==
    excel_status = "loaded" =>
        IF SomeSheetCounts
        THEN /\ excel_diag.sheet = FirstBestSheet
             /\ excel_diag.sheet_rows = Score(workbook.sheets[FirstBestSheet]).rows
             /\ excel_diag.sheet_desc_rows = Score(workbook.sheets[FirstBestSheet]).desc_rows
        ELSE /\ excel_diag.sheet = 0
             /\ excel_rows = EmptyIndex

\* the usable sheets that have rows under the first
SheetsWithRows == { k \in UsableSheets : workbook.sheets[k].rows # <<>> }

\* C18 as stated: whenever the workbook has a usable sheet with rows under the
\* first, the first of the best usable sheets is the sheet read
C18_AsStated ==
    (excel_status = "loaded" /\ SheetsWithRows # {}) => excel_diag.sheet = FirstBestSheet

\* three usable sheets tie on desc_rows, the last two also on rows, and the
\* second is read
C18_Witness ==
    /\ excel_status = "loaded"
    /\ Len(workbook.sheets) = 3
    /\ UsableSheets = {1, 2, 3}
    /\ \A k \in 1..3 : Score(workbook.sheets[k]).desc_rows = 1
    /\ Score(workbook.sheets[1]).rows = 1
    /\ Score(workbook.sheets[2]).rows = 2
    /\ Score(workbook.sheets[3]).rows = 2
    /\ excel_diag.sheet = 2

\* C19: a sheet without a usable range is never the sheet read, and a workbook
\* of which no sheet has a usable range, or no usable sheet a counted row,
\* loads as an empty index without a failure
C19_DegenerateSheets ==
    workbook.opens =>
        /\ excel_status # "failed"
        /\ excel_status = "loaded" =>
            /\ excel_diag.sheet \in UsableSheets \cup {0}
            /\ ~SomeSheetCounts =>
                /\ excel_rows = EmptyIndex
                /\ excel_diag.sheet = 0
                /\ excel_diag.rows_read = 0

\* a workbook whose sheets all are without a usable range, some unreadable
\* and some with empty bounds, has been loaded
C19_Witness ==
    /\ excel_status = "loaded"
    /\ UsableSheets = {}
    /\ \E k \in 1..Len(workbook.sheets) : workbook.sheets[k].kind = "unreadable"
    /\ \E k \in 1..Len(workbook.sheets) : workbook.sheets[k].kind = "no_range"
    /\ excel_rows = EmptyIndex

\* a read that falls back on the text when the value is None or blank
FallbackReadA(cell) ==
    IF cell.value = NoneText \/ StripText(cell.value) = <<>> THEN cell.text ELSE cell.value

FallbackReadB(cell) ==
    IF cell.value = None \/ StripDesc(cell.value) = "" THEN cell.text ELSE cell.value

\* every read of a row yields what a read with the fallback yields
RowReadWithFallback(sheet, row) ==
    /\ CountsA(ScoreReadA(row.a)) = CountsA(FallbackReadA(row.a))
    /\ sheet.cols >= 2 => CountsB(ScoreReadB(row.b)) = CountsB(FallbackReadB(row.b))
    /\ FileNameOf(row.a) = (IF FallbackReadA(row.a) = NoneText THEN <<>>
                            ELSE StripText(FallbackReadA(row.a)))
    /\ sheet.cols >= 2 =>
           DescriptionOf(sheet, row) = (IF FallbackReadB(row.b) = None THEN ""
                                          ELSE StripDesc(FallbackReadB(row.b)))

\* C20: every read of a cell of a usable sheet, for its scores and for its
\* rows, falls back on the Text of the cell when the value is None or blank
C20_FallbackOnEveryRead ==
    excel_status = "loaded" =>
        \A k \in UsableSheets :
            \A r \in 1..Len(workbook.sheets[k].rows) :
                RowReadWithFallback(workbook.sheets[k], workbook.sheets[k].rows[r])


(***************************************************************************)
(* Properties of the keys (SpecNames)                                      *)
(***************************************************************************)
\* the other case of a letter
SwapCase(c) == IF c = "P" THEN "p" ELSE IF c = "p" THEN "P" ELSE IF c = "a" THEN "A" ELSE c

\* the names that differ from t in the case of one letter, in the kind of one
\* whitespace character, in one whitespace character more in a run, or in one
\* directional mark more
Variants(t) ==
    { [t EXCEPT ![i] = SwapCase(t[i])] : i \in 1..Len(t) }
    \cup { [t EXCEPT ![i] = w] : i \in { k \in 1..Len(t) : t[k] \in Whitespace }, w \in Whitespace }
    \cup { SubSeq(t, 1, i) \o <<w>> \o SubSeq(t, i + 1, Len(t)) :
             i \in { k \in 1..Len(t) : t[k] \in Whitespace }, w \in Whitespace }
    \cup { SubSeq(t, 1, i) \o <<m>> \o SubSeq(t, i + 1, Len(t)) :
             i \in 0..Len(t), m \in DirectionalMarks }

C25_NormalizeBaseIdempotent ==
    norm_pc = "twice" =>
        /\ norm_keys.base_twice = norm_keys.base_once
        /\ norm_keys.base_norm = norm_keys.base_once


(***************************************************************************)
(* Properties of the load by folder URL (SpecUrl)                          *)
(***************************************************************************)
\* the candidates are tried in their order
TriedInOrder ==
    /\ Len(url_attempts) <= Len(url_candidates)
    /\ \A k \in 1..Len(url_attempts) : url_attempts[k].pid = url_candidates[k]

\* a bare project id gives the candidates id, b.id, a.id, then the selected
\* project unless it is one of them
BareIdCandidates ==
    (url_pc # "idle" /\ url_input.project_id = "p1") =>
        url_candidates = (IF url_input.selected \in {None, "b.p1"}
                          THEN <<"p1", "b.p1", "a.p1">>
                          ELSE <<"p1", "b.p1", "a.p1", url_input.selected>>)

\* C26: the candidates of a bare project id are id, b.id, a.id, then the
\* selected project; they are tried in that order, the next one after every
\* failure whatever its error, and the load is reported as failed only when
\* every candidate has been tried
C26_AllCandidatesTried ==
    /\ BareIdCandidates
    /\ TriedInOrder
    /\ url_pc \in {"ui_fail", "failed"} => Len(url_attempts) = Len(url_candidates)


(***************************************************************************)
(* Properties of a repeated pass (SpecRerun)                               *)
(***************************************************************************)
\* the update calls among the calls of a pass
UpdateCalls(cs) == SelectSeq(cs, LAMBDA c : c.op = "update_version_description")

\* the first pass left the session it found: none of its token refreshes succeeded
SessionKeptByFirstRun ==
    \A k \in 1..Len(replay) : ~(replay[k].tok.used /\ replay[k].tok.resp.kind = "ok")

SamePassResult ==
    /\ log = first_run.log
    /\ updated = first_run.updated
    /\ skipped = first_run.skipped
    /\ calls = first_run.calls
    /\ UpdateCalls(calls) = UpdateCalls(first_run.calls)

C29_SkipsPrecedeFetch ==
    /\ \A k \in 1..Len(log) :
          log[k].line \in {"Skipped (missing item id)", "Skipped (no Excel row)",
                           "Skipped (empty description)", "Skipped (C4RModel not supported)"}
              => ~\E c \in 1..Len(calls) : calls[c].item = log[k].item
    /\ \A c \in 1..Len(calls) :
          calls[c].op = "get_item_detail" => file_items[calls[c].item].ExtensionType # C4RModel

\* the sheet read_excel read the rows from
SelectedSheet == workbook.sheets[excel_diag.sheet]

RowsLoaded == excel_status = "loaded" /\ excel_diag.sheet # 0

\* the rows accepted from the selected sheet, in sheet order
Accepted == AcceptedRows(SelectedSheet, SelectedSheet.rows)

KeysOfRow(row) == {NormalizeName(row.FileName), NormalizeBase(row.FileName)}

\* the first accepted row that has the key
FirstWithKey(key) ==
    Accepted[CHOOSE j \in 1..Len(Accepted) :
                 /\ key \in KeysOfRow(Accepted[j])
                 /\ \A i \in 1..(j - 1) : key \notin KeysOfRow(Accepted[i])]

NoOtherKeys ==
    /\ <<>> \notin DOMAIN excel_rows
    /\ \A key \in DOMAIN excel_rows :
          \E k \in 1..Len(Accepted) : key \in KeysOfRow(Accepted[k])

\* C21: every accepted row whose name does not normalize to the empty text is
\* found in the index under its full key and under its base key, unless an
\* earlier accepted row has the key, which then holds that earlier row; the
\* index has no other key, and never the empty one
C21_BothKeysFirstWins ==
    RowsLoaded =>
        /\ \A k \in 1..Len(Accepted) : \A key \in KeysOfRow(Accepted[k]) :
              key # <<>> => /\ key \in DOMAIN excel_rows
                            /\ excel_rows[key] = FirstWithKey(key)
        /\ NoOtherKeys

\* C21 as stated: every accepted row is in the index under both of its keys
C21_AsStated ==
    RowsLoaded =>
        /\ \A k \in 1..Len(Accepted) : \A key \in KeysOfRow(Accepted[k]) :
              /\ key \in DOMAIN excel_rows
              /\ excel_rows[key] = FirstWithKey(key)
        /\ NoOtherKeys

\* two accepted rows share a key and the index holds the earlier one under it
C21_Witness ==
    /\ RowsLoaded
    /\ \E j, k \in 1..Len(Accepted) :
          /\ j < k
          /\ Accepted[j] # Accepted[k]
          /\ \E key \in KeysOfRow(Accepted[j]) \cap KeysOfRow(Accepted[k]) :
                /\ key # <<>>
                /\ excel_rows[key] = Accepted[j]
                /\ \A i \in 1..(j - 1) : key \notin KeysOfRow(Accepted[i])

\* the text of the second column of a row, "" when the range has one column
SecondColumnText(sheet, row) ==
    IF sheet.cols < 2 \/ FallbackReadB(row.b) = None THEN ""
    ELSE StripDesc(FallbackReadB(row.b))

C23_BuilderNeverRaises ==
    (excel_status # "none" /\ ~workbook.opens) =>
        /\ excel_status = "loaded"
        /\ excel_rows = EmptyIndex

\* the threads that wait for the answer to an update of a description
UpdatesInFlight ==
    { th \in ThreadIds :
         /\ threads[th].pc = "wait"
         /\ threads[th].op \in {UpdateVersionDescriptionOp, UpdateFileDescriptionOp} }

\* the calls of the pass follow the file list
CallsInListOrder ==
    \A c, d \in 1..Len(calls) : c < d => calls[c].item <= calls[d].item

\* the outcome of every item before item i is in the log
DecidedBefore(i) == \A j \in 1..(i - 1) : OutcomesOfItem(j) # <<>>

\* C28: the calls of a pass are made item by item in the order of the file
\* list; while the UI thread is inside a call for an item, and when a call of
\* an item has been made, every earlier item has its outcome and no later
\* item has a call or an outcome; never are two updates of a description
\* awaiting their answer, whatever a background worker is doing
C28_OneItemAtATime ==
    /\ CallsInListOrder
    /\ \A c \in 1..Len(calls) : DecidedBefore(calls[c].item)
    /\ threads["ui"].pc = "wait" =>
          /\ apply_pc = "running"
          /\ DecidedBefore(idx)
          /\ \A c \in 1..Len(calls) : calls[c].item < idx
          /\ \A i \in idx..Len(file_items) : OutcomesOfItem(i) = <<>>
    /\ Cardinality(UpdatesInFlight) <= 1
    /\ UpdatesInFlight \subseteq {"ui"}

\* the update of the second item awaits its answer, the first item has its
\* outcome, and the worker awaits the answer to a listing
C28_Witness ==
    /\ threads["ui"] = InCall(UpdateVersionDescriptionOp)
    /\ idx = 2
    /\ OutcomesOfItem(1) # <<>>
    /\ \E c \in 1..Len(calls) : calls[c].op = "update_version_description" /\ calls[c].item = 1
    /\ threads["worker"].pc = "wait"
    /\ threads["worker"].op = GetFilesInFolder

(***************************************************************************)
(* Properties of the handlers of the folder tree (SpecTree)                *)
(***************************************************************************)
\* the calls of get_folder_children for node n that await their answer
Outstanding(n) ==
    { k \in 1..Len(ui_stack) :
         ui_stack[k].call = "get_folder_children" /\ ui_stack[k].node = n }

NoSecondListing ==
    \A n \in FolderIds :
        Outstanding(n) # {} => child_listings'[n] <= child_listings[n]

\* C30: at no time do two calls of get_folder_children for one node await
\* their answer, and while one does, no handler makes another, whatever
\* requests for the node are made meanwhile
C30_NoDuplicateListing ==
    /\ [](\A n \in FolderIds : Cardinality(Outstanding(n)) <= 1)
    /\ [][NoSecondListing]_vars

\* the listing of a node awaits its answer, the node is marked as loading,
\* and two more requests for the node, an expansion and a double click, wait
C30_Witness ==
    \E n \in FolderIds :
        /\ Outstanding(n) # {}
        /\ nodes[n].IsLoading
        /\ TreeEvent("expanded", n) \in Range(ui_queue)
        /\ TreeEvent("double_click", n) \in Range(ui_queue)

(***************************************************************************)
(* Properties of the session under refresh (SpecClient)                    *)
(***************************************************************************)
\* C31: once a call of the data client has ended in a failed refresh, the
\* window holds no session
C31_FailedRefreshClearsSession ==
    \A th \in ThreadIds :
        (threads[th].pc = "raised" /\ threads[th].err \in RefreshErrors) => session = NoSession

SessionWrites == {"write_access", "write_refresh", "write_expiry"}

\* the session changes only in the assignments that follow an accepted answer
SessionChangesOnlyOnSuccess ==
    session' # session =>
        \E th \in ThreadIds :
            /\ threads[th].pc \in SessionWrites
            /\ threads[th].reply.kind = "ok"
            /\ threads'[th].pc \in {"write_refresh", "write_expiry", "refreshed"}

\* a refresh that raises leaves the session as it was
FailedRefreshKeepsSession ==
    \A th \in ThreadIds :
        (threads[th].pc # "raised" /\ threads'[th].pc = "raised" /\ threads'[th].err \in RefreshErrors)
            => /\ session' = session
               /\ threads[th].pc \in {"refresh", "refresh_wait"}

\* the three assignments follow one another, nothing raises between them
WritesRunTogether ==
    \A th \in ThreadIds :
        threads[th].pc \in SessionWrites =>
            /\ threads'[th].pc \in {"write_refresh", "write_expiry", "refreshed"}
            /\ threads'[th].reply = threads[th].reply

\* C36: a refresh that raises, for want of a refresh token or on an answer
\* that is an error or cannot be read, leaves the three fields of the session
\* as they were; the fields change only in the three assignments that follow
\* an accepted answer, which run one after the other to the last
C36_FailedRefreshKeepsSession ==
    [][SessionChangesOnlyOnSuccess /\ FailedRefreshKeepsSession /\ WritesRunTogether]_vars

\* a call whose first refresh installed n2, q2 and whose second refresh was
\* rejected: the session still holds n2, q2
C36_Witness ==
    \E th \in ThreadIds :
        /\ threads[th].pc = "raised"
        /\ threads[th].err = "RefreshFailed"
        /\ threads[th].token_posts = 1
        /\ session.AccessToken = "n2"
        /\ session.RefreshToken = "q2"
        /\ session.ExpiresAtUtc = now + 60

(***************************************************************************)
(* Properties of the start of the window (SpecStartup)                     *)
(***************************************************************************)
\* the settings held a token whose expiry lay beyond the margin when
\* _restore_cached_session ran: the worker of _load_hubs_async was started
Restored == startup_pc = "loading"

\* C32: a cached token is restored as a session only if its cached expiry is
\* more than two minutes ahead, the session installed being the cached token
\* with the cached expiry and now < expiry - 2 minutes at that moment;
\* otherwise the token and the expiry are cleared from the settings and the
\* window starts without a session.
C32_RestoreOnlyOutsideMargin ==
    [][ startup_pc = "constructed" /\ startup_pc' # "constructed" =>
          IF Truthy(cache.acc_token) /\ cache.acc_token_expires > now + SafetyMarginSeconds
          THEN /\ session' = Session(cache.acc_token, "", cache.acc_token_expires)
               /\ now' < session'.ExpiresAtUtc - SafetyMarginSeconds
               /\ cache' = cache
          ELSE /\ session' = NoSession
               /\ cache' = NoCache
               /\ status_text' = "" ]_vars

\* a token found two minutes and a third of a tick before its expiry is restored
C32_Witness ==
    /\ Restored
    /\ session.AccessToken = "t6"
    /\ session.ExpiresAtUtc = now + SafetyMarginSeconds + (TickSeconds \div 3)
    /\ cache.acc_token = "t6"

(***************************************************************************)
(* Properties of a pass on a list loaded by folder URL (SpecUrlPass)       *)
(***************************************************************************)
\* the project id of the call of get_files_in_folder that returned the list
ListedUnder == url_attempts[Len(url_attempts)].pid

BothCallsMade(wk) ==
    /\ \E k \in 1..Len(requests) :
          requests[k].kind = "token" /\ requests[k].id = wk.posted_code
    /\ \E k \in 1..Len(requests) :
          requests[k].kind = "hubs" /\ requests[k].bearer = wk.session.AccessToken

\* the session or the settings change in this step
Installs == session' # session \/ cache' # cache

\* the step is ui_success of attempt w, whose worker got through authenticate
\* and get_hubs
InstalledBySuccess(w) ==
    /\ workers[w].pc = "succeeded"
    /\ workers[w].result = "ok"
    /\ workers[w].err_value = None
    /\ BothCallsMade(workers[w])
    /\ workers'[w].pc = "done"
    /\ session' = workers[w].session
    /\ cache' = [acc_token |-> session'.AccessToken,
                 acc_token_expires |-> session'.ExpiresAtUtc]

\* attempt w fails or its failure is reported in this step
FailsOrReports(w) ==
    \/ workers[w].pc # "failed" /\ workers'[w].pc = "failed"
    \/ workers[w].pc = "failed" /\ workers'[w].pc = "done"

\* C34: the session (with the auth client and the data client built on it)
\* and the token cache are written only by ui_success of an attempt whose
\* authenticate and first hub listing both succeeded, and both are written
\* then; a step in which an attempt fails leaves them unchanged.
C34_InstallOnlyAfterBothSucceed ==
    [][ /\ Installs => \E w \in WorkerIds : InstalledBySuccess(w)
        /\ \A w \in WorkerIds :
              workers[w].pc = "succeeded" /\ workers'[w].pc = "done" => InstalledBySuccess(w)
        /\ \A w \in WorkerIds :
              FailsOrReports(w) => session' = session /\ cache' = cache ]_vars

\* a second attempt failed on the hub listing after a first one had signed in:
\* the session and the settings are those of the first
C34_Witness ==
    /\ workers[1].pc = "done"
    /\ workers[1].result = "ok"
    /\ workers[2].pc = "done"
    /\ workers[2].result = "HubListingFailed"
    /\ workers[2].session # workers[1].session
    /\ session = workers[1].session
    /\ cache = [acc_token |-> session.AccessToken, acc_token_expires |-> session.ExpiresAtUtc]

\* the sign-in is over for the window: the flag is cleared, the button enabled
SignInOver == ~auth_in_progress /\ login_enabled

\* C35: every sign-in attempt that starts eventually ends, by success or by
\* any failure, with the in-progress flag cleared and the sign-in button
\* enabled; the flag is never set while no worker is at work.
C35_AttemptEndsWithFlagCleared ==
    /\ \A w \in WorkerIds :
          (workers[w].pc = "start") ~> (workers[w].pc = "done" /\ SignInOver)
    /\ [](InFlight = {} => SignInOver)

\* an attempt that waited for the callback until the timeout is over, the
\* flag cleared and the button enabled
C35_Witness ==
    /\ workers[1].pc = "done"
    /\ workers[1].result = "AuthTimeout"
    /\ workers[1].elapsed >= TimeoutSeconds
    /\ InFlight = {}
    /\ SignInOver
    /\ status_text = "Sign in failed"

(***************************************************************************)
(* Properties of a session restored from the settings (SpecClient)         *)
(***************************************************************************)
\* the session in use was rebuilt by _restore_cached_session and the clock has
\* reached its expiry less two minutes
CachedInMargin ==
    /\ session_origin.kind = "cached"
    /\ now >= session.ExpiresAtUtc - SafetyMarginSeconds

\* the call of thread th began when the clock had reached the margin
BegunInMargin(th) == threads[th].guards # <<>> /\ MustRefresh(threads[th].guards[1])

\* C37: a session restored from the settings has no refresh token and is never
\* refreshed; once now >= expiry - 2 minutes no request is put on the wire and
\* every call of the data client begun from then on ends in NoRefreshToken
\* with nothing sent.
C37_CachedSessionCannotRefresh ==
    /\ [](session_origin.kind = "cached" =>
            /\ session = CachedSession
            /\ ~Truthy(session.RefreshToken)
            /\ \A k \in 1..Len(requests) : requests[k].kind # "token"
            /\ \A th \in ThreadIds :
                  BegunInMargin(th) =>
                      /\ threads[th].pc \in {"refresh", "raised"}
                      /\ threads[th].pc = "raised" => threads[th].err = "NoRefreshToken"
                      /\ threads[th].sent = NothingSent
                      /\ threads[th].token_posts = 0)
    /\ [][CachedInMargin => requests' = requests /\ session' = session]_vars

\* a call begun exactly two minutes before the cached expiry has failed
C37_Witness ==
    \E th \in ThreadIds :
        /\ session_origin.kind = "cached"
        /\ threads[th].pc = "raised"
        /\ threads[th].err = "NoRefreshToken"
        /\ BegunInMargin(th)
        /\ threads[th].guards[1].at = session.ExpiresAtUtc - SafetyMarginSeconds
        /\ requests = <<>>

(***************************************************************************)
(* Properties of sheets without counted rows (SpecExcel)                   *)
(***************************************************************************)
\* the sheets with a usable range and nothing counted in columns A and B
ZeroSheets ==
    { k \in 1..Len(workbook.sheets) :
        /\ workbook.sheets[k].kind = "grid"
        /\ Score(workbook.sheets[k]) = [rows |-> 0, desc_rows |-> 0] }

\* C38: a sheet whose data rows are all empty in columns A and B is never
\* selected, usable range or not, only sheet or not; a workbook made only of
\* such sheets gives an empty index and diagnostics whose range bounds, sheet
\* and header list are as read_excel first set them.
C38_ZeroSheetNeverSelected ==
    excel_status = "loaded" =>
        /\ excel_diag.sheet \notin ZeroSheets
        /\ ZeroSheets = 1..Len(workbook.sheets) =>
              /\ excel_rows = EmptyIndex
              /\ excel_diag.sheet = 0
              /\ excel_diag.row_end = 0
              /\ excel_diag.col_end = 0
              /\ excel_diag.headers = {}
              /\ excel_diag = NoDiagnostics

\* a workbook whose only sheet has headers over an empty row was read
C38_Witness ==
    /\ excel_status = "loaded"
    /\ Len(workbook.sheets) = 1
    /\ workbook.sheets[1].kind = "grid"
    /\ workbook.sheets[1].headers = PlainHeaders
    /\ ZeroSheets = {1}
    /\ excel_rows = EmptyIndex
    /\ excel_diag = NoDiagnostics

(***************************************************************************)
(* Properties of the COM objects of the best sheet (SpecHandles)           *)
(***************************************************************************)
\* C39: while the sheets are gone through and the rows are read, the
\* Worksheet and UsedRange objects of the best sheet are not released, also
\* when the reading of a later sheet raises; every read of the Text property
\* on the selected sheet is made on a live object.
C39_BestSheetHandlesLive ==
    /\ (scan_pc \in {"scanning", "built"} /\ best_sheet.sheet # 0) =>
          /\ best_sheet.sheet \notin released_ws
          /\ best_sheet.sheet \notin released_rng
    /\ text_reads.dead = 0

(***************************************************************************)
(* Properties of build_session_block (SpecBep)                             *)
(***************************************************************************)
\* the entries of sessions in a block, in order
EntriesOf(block) == SelectSeq(block, LAMBDA l : l.text = "  - ")

\* the values that are true for Python: true, a number other than 0, a string
\* that is not empty
TruthyValues == {"true", "1", "'no'"}

\* the sessions of the payload whose Keep is truthy, in order
MarkedToKeep == SelectSeq(bep_sessions, LAMBDA s : s.Keep \in TruthyValues)

\* the block says that no session is marked
SaysNoneKept == \E k \in 1..Len(bep_block) : bep_block[k].text = "- No sessions marked to keep."

\* C40: with start_fresh true the block lists no session, whatever the Keep
\* flags; with start_fresh false it lists exactly the sessions whose Keep is
\* truthy, in input order, and it has the "No sessions marked to keep" line
\* if and only if no session has Keep truthy.
C40_SessionBlock ==
    bep_block # <<>> =>
        IF bep_start_fresh \in TruthyValues
        THEN /\ EntriesOf(bep_block) = <<>>
             /\ ~SaysNoneKept
        ELSE /\ Len(EntriesOf(bep_block)) = Len(MarkedToKeep)
             /\ \A k \in 1..Len(MarkedToKeep) :
                   /\ EntriesOf(bep_block)[k].name \in {MarkedToKeep[k].Name, "Unnamed"}
                   /\ EntriesOf(bep_block)[k].name = "Unnamed" <=> MarkedToKeep[k].Name = Absent
                   /\ EntriesOf(bep_block)[k].pair = "Unassigned"
                         <=> MarkedToKeep[k].DisciplinePair = Absent
             /\ SaysNoneKept <=> MarkedToKeep = <<>>

\* of two sessions the second alone is marked, by a Keep that is a string; it
\* is the one entry of the block
C40_Witness ==
    /\ bep_block # <<>>
    /\ bep_start_fresh \notin TruthyValues
    /\ Len(bep_sessions) = 2
    /\ bep_sessions[1].Keep = "false"
    /\ bep_sessions[1].Name = "S1"
    /\ bep_sessions[2].Keep = "'no'"
    /\ bep_sessions[2].Name = Absent
    /\ Len(EntriesOf(bep_block)) = 1
    /\ EntriesOf(bep_block)[1].name = "Unnamed"

====
